---- MODULE Spec2Model ----
(***************************************************************************)
(* Model of the brick component registry (github.com/doraemonkeys/brick):  *)
(* registration, Get / GetOrCreate resolution with the per-call cycle      *)
(* guard and the single-flight build group, injection of brick-tagged      *)
(* fields, and clones.                                                     *)
(*                                                                         *)
(* Strings of the program (tags, type IDs, live IDs) are sequences of      *)
(* one-character strings so that tag parsing is computed as the code       *)
(* computes it.                                                            *)
(***************************************************************************)
EXTENDS Integers, Sequences, FiniteSets, TLC

(* ------------------------------------------------------------------ *)
(* Bounds of the model                                                  *)
(* ------------------------------------------------------------------ *)

\* number of goroutines that call the resolution engine
NumThreads == 2

\* depth of the goroutine call stack at which the model stops a runaway recursion
MaxDepth == 5

(* ------------------------------------------------------------------ *)
(* Strings                                                              *)
(* ------------------------------------------------------------------ *)

HasPrefix(s, p) == Len(s) >= Len(p) /\ SubSeq(s, 1, Len(p)) = p

TrimPrefix(s, p) == IF HasPrefix(s, p) THEN SubSeq(s, Len(p) + 1, Len(s)) ELSE s

RECURSIVE SplitFrom(_, _, _)
\* strings.Split(s, sep) for a one-character separator; cur is the piece being read
SplitFrom(s, sep, cur) ==
    IF s = <<>> THEN <<cur>>
    ELSE IF Head(s) = sep THEN <<cur>> \o SplitFrom(Tail(s), sep, <<>>)
    ELSE SplitFrom(Tail(s), sep, Append(cur, Head(s)))

Split(s, sep) == SplitFrom(s, sep, <<>>)

strRandom == <<"r", "a", "n", "d", "o", "m">>
strClone == <<"c", "l", "o", "n", "e">>
strClonePrefix == <<"c", "l", "o", "n", "e", ":">>
strEmpty == <<>>


\* brick.go parseTag
parseTag(tag) ==
    IF tag = strRandom
    THEN [liveID |-> strEmpty, typeID |-> strEmpty, isClone |-> FALSE, isRandomLiveID |-> TRUE]
    ELSE LET ids == Split(tag, ",")
             isClone == HasPrefix(tag, strClonePrefix) \/ tag = strClone
             trimmed == TrimPrefix(ids[1], strClonePrefix)
         IN  [liveID |-> IF isClone
                         THEN (IF trimmed = strClone THEN strEmpty ELSE trimmed)
                         ELSE ids[1],
              typeID |-> IF Len(ids) >= 2 THEN ids[2] ELSE strEmpty,
              isClone |-> isClone,
              isRandomLiveID |-> FALSE]

(* ------------------------------------------------------------------ *)
(* The component types of the modelled program                          *)
(* ------------------------------------------------------------------ *)

\* type IDs (BrickTypeID) and live IDs used by the program
tidLeaf == <<"L">>
tidConf == <<"C">>
tidMid == <<"M">>
tidRoot == <<"R">>
tidSelf == <<"S">>
tidSelfRnd == <<"N">>
tidDeep == <<"D">>
tidSkew == <<"K">>
tidTwin == <<"T">>
tidA == <<"A">>
tidB == <<"B">>
tidHid == <<"H">>
tidOver == <<"O">>
tidSvc == <<"I">>
tidClash == <<"Z">>
tidPool == <<"P">>
tidLame == <<"E">>
tidHost == <<"G">>
tidPort == <<"Q">>
tidHub == <<"U">>
tidDflt == <<"F">>
tidBad == <<"J">>
tidBased == <<"V">>
tidKit == <<"Y">>
tidPlain == <<"X">>
tidWrap == <<"W", "P">>
tidYard == <<"Y", "D">>
liveX == <<"x">>
liveY == <<"y">>
liveC == <<"c">>
liveV == <<"v">>
liveW == <<"w">>
liveOther == <<"o">>

\* a struct field: its Go name, whether its type is a struct (at pointer depth
\* lvl) or an interface, its brick tag, and whether reflect can set it (exported)
Fld(name, kind, base, lvl, tag, exported) ==
    [name |-> name, kind |-> kind, base |-> base, lvl |-> lvl, tag |-> tag,
     exported |-> exported]

\* a reflect.Type: the named struct type and its pointer depth
Typ(base, lvl) == [base |-> base, lvl |-> lvl]

\* the brick types: receiver kind of BrickTypeID, whether the type implements
\* BrickNewer, its BrickLives() and its brick-tagged fields
BrickTypes ==
    [Leaf |-> [tid |-> tidLeaf, recv |-> "ptr", newer |-> FALSE, lives |-> <<>>,
               fields |-> <<>>],
     Conf |-> [tid |-> tidConf, recv |-> "ptr", newer |-> TRUE, lives |-> <<>>,
               fields |-> <<>>],
     Mid |-> [tid |-> tidMid, recv |-> "ptr", newer |-> FALSE, lives |-> <<>>,
              fields |-> <<Fld("Leaf", "struct", "Leaf", 1, strEmpty, TRUE)>>],
     Root |-> [tid |-> tidRoot, recv |-> "ptr", newer |-> FALSE, lives |-> <<>>,
               fields |-> <<Fld("L1", "struct", "Leaf", 1, strEmpty, TRUE),
                            Fld("L2", "struct", "Leaf", 1, tidLeaf, TRUE),
                            Fld("M", "struct", "Mid", 1, strEmpty, TRUE),
                            Fld("X", "struct", "Leaf", 1, liveX, TRUE)>>],
     Self |-> [tid |-> tidSelf, recv |-> "ptr", newer |-> FALSE, lives |-> <<>>,
               fields |-> <<Fld("T5", "struct", "Self", 1, strEmpty, TRUE)>>],
     SelfRnd |-> [tid |-> tidSelfRnd, recv |-> "ptr", newer |-> FALSE, lives |-> <<>>,
                  fields |-> <<Fld("T51", "struct", "SelfRnd", 1, strRandom, TRUE)>>],
     Deep |-> [tid |-> tidDeep, recv |-> "val", newer |-> FALSE, lives |-> <<>>,
               fields |-> <<Fld("T52", "struct", "Deep", 3, strRandom, TRUE)>>],
     Skew |-> [tid |-> tidSkew, recv |-> "ptr", newer |-> FALSE, lives |-> <<>>,
               fields |-> <<Fld("PP", "struct", "Skew", 2, strEmpty, TRUE)>>],
     Twin |-> [tid |-> tidTwin, recv |-> "ptr", newer |-> FALSE, lives |-> <<>>,
               fields |-> <<Fld("Copy", "struct", "Twin", 1, strClone, TRUE)>>],
     A |-> [tid |-> tidA, recv |-> "ptr", newer |-> FALSE, lives |-> <<>>,
            fields |-> <<Fld("B", "struct", "B", 1, strEmpty, TRUE)>>],
     B |-> [tid |-> tidB, recv |-> "ptr", newer |-> FALSE, lives |-> <<>>,
            fields |-> <<Fld("A", "struct", "A", 1, strEmpty, TRUE)>>],
     Hid |-> [tid |-> tidHid, recv |-> "ptr", newer |-> FALSE, lives |-> <<>>,
              fields |-> <<Fld("leaf", "struct", "Leaf", 1, strEmpty, FALSE)>>],
     Over |-> [tid |-> tidOver, recv |-> "ptr", newer |-> TRUE,
               lives |-> <<[LiveID |-> liveV, RelyLives |-> [T1 |-> liveW]]>>,
               fields |-> <<Fld("T1", "struct", "Leaf", 1, strEmpty, TRUE),
                            Fld("T2", "struct", "Leaf", 1, strEmpty, TRUE)>>],
     Svc |-> [tid |-> tidSvc, recv |-> "ptr", newer |-> FALSE, lives |-> <<>>,
              fields |-> <<Fld("Dep", "iface", "", 0, liveY, TRUE)>>],
     Clash |-> [tid |-> tidClash, recv |-> "ptr", newer |-> FALSE, lives |-> <<>>,
                fields |-> <<Fld("Bad", "struct", "Leaf", 1, tidMid, TRUE)>>],
     Pool |-> [tid |-> tidPool, recv |-> "ptr", newer |-> FALSE, lives |-> <<>>,
               fields |-> <<Fld("Rnd", "struct", "Leaf", 1, strRandom, TRUE),
                            Fld("Cl", "struct", "Conf", 1, strClone, TRUE)>>],
     Lame |-> [tid |-> tidLame, recv |-> "ptr", newer |-> TRUE,
               lives |-> <<[LiveID |-> liveV, RelyLives |-> [Nope |-> liveW]]>>,
               fields |-> <<>>],
     Host |-> [tid |-> tidHost, recv |-> "ptr", newer |-> FALSE, lives |-> <<>>,
               fields |-> <<Fld("Bad", "struct", "Lame", 1, strEmpty, TRUE),
                            Fld("L", "struct", "Leaf", 1, strEmpty, TRUE)>>],
     Port |-> [tid |-> tidPort, recv |-> "ptr", newer |-> TRUE,
               lives |-> <<[LiveID |-> liveV, RelyLives |-> [Dep |-> liveX]]>>,
               fields |-> <<Fld("Dep", "iface", "", 0, liveY, TRUE)>>],
     Hub |-> [tid |-> tidHub, recv |-> "ptr", newer |-> FALSE, lives |-> <<>>,
              fields |-> <<Fld("Cfg", "iface", "", 0, liveC, TRUE),
                           Fld("Tid", "iface", "", 0, liveX \o <<",">> \o tidLeaf, TRUE),
                           Fld("Cl", "iface", "", 0, strClonePrefix \o liveC, TRUE),
                           Fld("None", "iface", "", 0, liveOther, TRUE)>>],
     Dflt |-> [tid |-> tidDflt, recv |-> "ptr", newer |-> FALSE, lives |-> <<>>,
               fields |-> <<Fld("F", "iface", "", 0, <<",">> \o tidLeaf, TRUE),
                            Fld("G", "iface", "", 0, strRandom, TRUE)>>],
     Bad |-> [tid |-> tidBad, recv |-> "ptr", newer |-> FALSE, lives |-> <<>>,
              fields |-> <<Fld("F", "iface", "", 0, liveC \o <<",">> \o tidLeaf, TRUE),
                           Fld("G", "iface", "", 0, strEmpty, TRUE)>>],
     Based |-> [tid |-> tidBased, recv |-> "ptr", newer |-> TRUE, lives |-> <<>>,
                fields |-> <<Fld("T1", "struct", "Leaf", 1, strEmpty, TRUE)>>],
     Kit |-> [tid |-> tidKit, recv |-> "ptr", newer |-> FALSE, lives |-> <<>>,
              fields |-> <<Fld("R", "struct", "Based", 1, strRandom, TRUE),
                           Fld("C", "struct", "Based", 1, strClone, TRUE)>>],
     Plain |-> [tid |-> tidPlain, recv |-> "val", newer |-> FALSE, lives |-> <<>>,
                fields |-> <<>>],
     Wrap |-> [tid |-> tidWrap, recv |-> "ptr", newer |-> FALSE, lives |-> <<>>,
               fields |-> <<Fld("PP", "struct", "Leaf", 2, strEmpty, TRUE)>>],
     Yard |-> [tid |-> tidYard, recv |-> "ptr", newer |-> FALSE, lives |-> <<>>,
               fields |-> <<Fld("O", "struct", "Over", 1, strEmpty, TRUE)>>]]

Bases == DOMAIN BrickTypes

\* the types whose first field is an embedded BrickBase[*T], which provides
\* NewBrick, BrickLiveID and SaveBrickConfig
EmbedsBrickBase == {"Based"}

\* the types that the programs of configuration and BrickBase calls resolve
BrickBaseTypes == {"Based", "Kit"}

\* the types that the programs about the shape of a cached instance resolve: a
\* type with value receivers, requested as T and as *T, and a type with a
\* field of type **Leaf
ShapeTypes == {"Plain", "Wrap"}

\* the types that only the registration programs use: a type with a field whose
\* type defines live overrides
RegistrationTypes == {"Yard"}

\* the registration calls the program makes at start-up, in order
Registrations ==
    <<[fn |-> "RegisterNewer", base |-> "Conf"],
      [fn |-> "Register", base |-> "Root"],
      [fn |-> "Register", base |-> "Self"],
      [fn |-> "Register", base |-> "SelfRnd"],
      [fn |-> "Register", base |-> "Deep"],
      [fn |-> "Register", base |-> "Skew"],
      [fn |-> "Register", base |-> "Twin"],
      [fn |-> "Register", base |-> "A"],
      [fn |-> "Register", base |-> "Hid"],
      [fn |-> "RegisterLives", base |-> "Over"],
      [fn |-> "Register", base |-> "Svc"],
      [fn |-> "Register", base |-> "Clash"],
      [fn |-> "Register", base |-> "Pool"],
      [fn |-> "Register", base |-> "Hub"],
      [fn |-> "Register", base |-> "Dflt"],
      [fn |-> "Register", base |-> "Bad"],
      [fn |-> "Register", base |-> "Based"],
      [fn |-> "Register", base |-> "Kit"],
      [fn |-> "Register", base |-> "Plain"],
      [fn |-> "Register", base |-> "Wrap"],
      [fn |-> "RegisterLiveIDType", base |-> "Leaf", lvl |-> 1, liveID |-> liveY]>>

\* payloads with a placeholder token: a JSON object with one value "${V}", and
\* the bare string "${V}"; the environment gives V the value v
cfgEnvMap == "{k:${V}}"
cfgEnvItem == "${V}"

\* the configuration documents ingested before the first resolution
ConfigFiles ==
    <<[MetaData |-> [TypeID |-> tidConf, NoCheck |-> FALSE],
       Lives |-> <<[LiveID |-> tidConf, Config |-> "v1"],
                   [LiveID |-> liveC, Config |-> cfgEnvMap]>>]>>

(* ------------------------------------------------------------------ *)
(* Registration (register.go) and configuration ingestion (config.go)   *)
(* ------------------------------------------------------------------ *)

EmptyFn == [x \in {} |-> x]

\* the BrickManager maps as they are before any registration, with the live-ID
\* constraint of addConfig enabled; failed tells
\* that a call panicked, walked lists the reflect.Types whose fields register
\* went through, in order
NewManager ==
    [brickTypeIDMap1 |-> EmptyFn, brickTypeIDMap2 |-> EmptyFn, brickFactories |-> {},
     declaredLiveIDs |-> {}, liveIDTypeMap |-> EmptyFn, brickConfigs |-> EmptyFn,
     liveIDConstraint |-> TRUE, failed |-> FALSE, walked |-> <<>>]

\* the names of the struct-typed fields of a type, which register collects
brickFieldNames(base) ==
    {BrickTypes[base].fields[i].name :
        i \in {j \in DOMAIN BrickTypes[base].fields : BrickTypes[base].fields[j].kind = "struct"}}

\* register.go register, lines 207-210: the live ID of a field's tag is declared
declareTag(st, tag) ==
    LET p == parseTag(tag)
    IN  IF ~p.isClone /\ p.liveID # p.typeID /\ p.liveID # strEmpty
        THEN [st EXCEPT !.declaredLiveIDs = @ \cup {p.liveID}]
        ELSE st

RECURSIVE register(_, _), registerFields(_, _, _)
\* register.go register, lines 165-250, for a type that is not bound yet: bind
\* it, walk its fields depth-first, then check the field names of its lives
registerNew(st, param) ==
    LET bound == [st EXCEPT
                    !.brickTypeIDMap1 = (param.ReflectType :> param.TypeID) @@ @,
                    !.brickTypeIDMap2 = (param.TypeID :> param.ReflectType) @@ @,
                    !.brickFactories = IF param.BrickFactory
                                       THEN @ \cup {param.TypeID} ELSE @,
                    !.walked = Append(@, param.ReflectType)]
        badLive == \E i \in DOMAIN param.Lives :
                       \E f \in DOMAIN param.Lives[i].RelyLives :
                           f \notin brickFieldNames(param.ReflectType.base)
    IN  [registerFields(bound, param.ReflectType.base, 1) EXCEPT !.failed = @ \/ badLive]

\* a variant of register that stores the factory before it asks whether the
\* reflect.Type is bound
register_storesFactory(st, param) ==
    IF param.ReflectType \in DOMAIN st.brickTypeIDMap1
    THEN [st EXCEPT !.brickFactories = IF param.BrickFactory
                                       THEN @ \cup {param.TypeID} ELSE @]
    ELSE registerNew(st, param)

\* register.go register: setBrickTypeID refuses a reflect.Type that is bound
\* already, and register returns
register(st, param) ==
    CHOOSE r \in {IF param.ReflectType \in DOMAIN s.brickTypeIDMap1
                  THEN s ELSE registerNew(s, param) : s \in {st}} : TRUE

\* a variant of registerFields that registers no field type
registerFields_none(st, base, i) == st

\* the loop over the fields of register; a panic in a nested call ends it
registerFields(st, base, i) ==
    IF st.failed \/ i > Len(BrickTypes[base].fields) THEN st
    ELSE LET f == BrickTypes[base].fields[i]
         IN  IF f.kind # "struct" THEN registerFields(st, base, i + 1)
             ELSE registerFields(
                      register(declareTag(st, f.tag),
                               [TypeID |-> BrickTypes[f.base].tid,
                                ReflectType |-> Typ(f.base, 1),
                                Lives |-> BrickTypes[f.base].lives,
                                BrickFactory |-> BrickTypes[f.base].newer]),
                      base, i + 1)

\* the reflect.Type that Register and RegisterNewer bind: the value type for a
\* value receiver, the pointer type for a pointer receiver
registeredShape(base) == Typ(base, IF BrickTypes[base].recv = "val" THEN 0 ELSE 1)

\* RegisterLives: the declarations of its deferred function
declareLives(st, lives) ==
    [st EXCEPT !.declaredLiveIDs =
        @ \cup {lives[i].LiveID : i \in DOMAIN lives}
          \cup UNION {{lives[i].RelyLives[f] : f \in DOMAIN lives[i].RelyLives} :
                        i \in DOMAIN lives}]

\* one registration call of the program
registerCall(st, r) ==
    CASE r.fn = "Register" ->
            register(st, [TypeID |-> BrickTypes[r.base].tid,
                          ReflectType |-> registeredShape(r.base),
                          Lives |-> <<>>, BrickFactory |-> FALSE])
      [] r.fn = "RegisterNewer" ->
            register(st, [TypeID |-> BrickTypes[r.base].tid,
                          ReflectType |-> registeredShape(r.base),
                          Lives |-> <<>>, BrickFactory |-> TRUE])
      [] r.fn = "RegisterLives" ->
            register(declareLives(st, BrickTypes[r.base].lives),
                     [TypeID |-> BrickTypes[r.base].tid,
                      ReflectType |-> Typ(r.base, 0),
                      Lives |-> BrickTypes[r.base].lives, BrickFactory |-> TRUE])
      [] r.fn = "RegisterLiveIDType" ->
            [st EXCEPT !.liveIDTypeMap = (r.liveID :> Typ(r.base, r.lvl)) @@ @]

RECURSIVE registerAll(_, _)
registerAll(st, rs) ==
    IF rs = <<>> THEN st ELSE registerAll(registerCall(st, Head(rs)), Tail(rs))

\* a variant of setBrickConfig that keeps the LiveID field of the entry
setBrickConfig_keepsLiveID(configs, liveID, brickConfig) == (liveID :> brickConfig) @@ configs

\* config.go setBrickConfig
setBrickConfig(configs, liveID, brickConfig) ==
    (liveID :> [brickConfig EXCEPT !.LiveID = liveID]) @@ configs

\* every (document, live) pair of a list of configuration documents, in order
RECURSIVE livesOf(_)
livesOf(configs) ==
    IF configs = <<>> THEN <<>>
    ELSE [i \in DOMAIN Head(configs).Lives |->
             [meta |-> Head(configs).MetaData, live |-> Head(configs).Lives[i]]]
         \o livesOf(Tail(configs))

\* a variant of addConfigMalformed that applies the live-ID constraint
\* whatever the flag says
addConfigMalformed_constrained(st, configs) ==
    LET all == livesOf(configs)
    IN  \/ \E i \in DOMAIN configs : configs[i].MetaData.TypeID = strEmpty
        \/ \E i \in DOMAIN all : all[i].live.LiveID = strEmpty
        \/ \E i, j \in DOMAIN all : i # j /\ all[i].live.LiveID = all[j].live.LiveID
        \/ \E i \in DOMAIN configs :
              /\ configs[i].Lives # <<>>
              /\ \A j \in DOMAIN configs[i].Lives :
                    configs[i].Lives[j].LiveID # configs[i].MetaData.TypeID

\* config.go addConfig, lines 51-70: a document without type ID, a live
\* without live ID, a live ID that occurs twice in the batch, or, while the
\* live-ID constraint is enabled, a document that lists lives but none under
\* its type ID
addConfigMalformed(st, configs) ==
    LET all == livesOf(configs)
    IN  \/ \E i \in DOMAIN configs : configs[i].MetaData.TypeID = strEmpty
        \/ \E i \in DOMAIN all : all[i].live.LiveID = strEmpty
        \/ \E i, j \in DOMAIN all : i # j /\ all[i].live.LiveID = all[j].live.LiveID
        \/ /\ st.liveIDConstraint
           /\ \E i \in DOMAIN configs :
                 /\ configs[i].Lives # <<>>
                 /\ \A j \in DOMAIN configs[i].Lives :
                       configs[i].Lives[j].LiveID # configs[i].MetaData.TypeID

\* a variant of addConfigDuplicate that does not look at the store
addConfigDuplicate_never(st, configs) == FALSE

\* config.go addConfig, lines 72-80: a live ID of the batch is in the
\* configuration store already
addConfigDuplicate(st, configs) ==
    \E i \in DOMAIN livesOf(configs) :
        livesOf(configs)[i].live.LiveID \in DOMAIN st.brickConfigs

\* config.go addConfig, lines 51-80: the documents are rejected as a whole
addConfigError(st, configs) ==
    addConfigMalformed(st, configs) \/ addConfigDuplicate(st, configs)

RECURSIVE addLives(_, _, _, _)
\* config.go addConfig, lines 87-104: the loop over the lives of one document;
\* a payload for a registered type without factory ends the ingestion
addLives(st, config, j, checked) ==
    IF j > Len(config.Lives) THEN st
    ELSE LET live == config.Lives[j]
             check == ~checked /\ live.Config # "nil"
             declared == IF live.LiveID # config.MetaData.TypeID
                         THEN st.declaredLiveIDs \cup {live.LiveID}
                         ELSE st.declaredLiveIDs
         IN  IF /\ check
                /\ config.MetaData.TypeID \in DOMAIN st.brickTypeIDMap2
                /\ config.MetaData.TypeID \notin st.brickFactories
             THEN [st EXCEPT !.failed = TRUE]
             ELSE addLives([st EXCEPT
                               !.declaredLiveIDs = declared,
                               !.brickConfigs =
                                   setBrickConfig(@, live.LiveID,
                                                  [TypeID |-> config.MetaData.TypeID,
                                                   LiveID |-> live.LiveID,
                                                   Config |-> live.Config,
                                                   noCheck |-> config.MetaData.NoCheck])],
                           config, j + 1, checked \/ check)

RECURSIVE addDocuments(_, _)
\* config.go addConfig, lines 82-106: the loop over the documents
addDocuments(st, configs) ==
    IF configs = <<>> \/ st.failed THEN st
    ELSE addDocuments(addLives(st, Head(configs), 1, Head(configs).MetaData.NoCheck),
                      Tail(configs))

\* config.go addConfig
addConfig(st, configs) ==
    IF addConfigError(st, configs) THEN st ELSE addDocuments(st, configs)

\* the manager once the program has registered its types
Registered == registerAll(NewManager, Registrations)

\* the manager once the program has registered its types and read its configuration
Manager == addConfig(Registered, ConfigFiles)

(* ------------------------------------------------------------------ *)
(* The calls the goroutines make                                        *)
(* ------------------------------------------------------------------ *)

Threads == 1 .. NumThreads

\* a top-level call: Get, GetOrCreate or CloneConfig, the type parameter T, and the variadic
\* liveID argument (the empty sequence when it is not given)
Req(fn, base, lvl, arg) == [fn |-> fn, typ |-> Typ(base, lvl), arg |-> arg]

\* the type parameters T that satisfy the Brick constraint for a base type
TopShapes(base) == IF BrickTypes[base].recv = "val" THEN {0, 1} ELSE {1}

\* live IDs, besides the default ones, that the program asks a type for
ExtraLives(base) ==
    CASE base = "Leaf" -> {liveX, liveY, liveW, liveOther, liveC, tidRoot, tidConf}
      [] base = "Root" -> {liveOther}
      [] base = "Self" -> {liveOther}
      [] base = "Conf" -> {liveC}
      [] base = "Over" -> {liveV, liveOther}
      [] base = "Mid" -> {tidLeaf}
      [] base = "Pool" -> {liveOther}
      [] OTHER -> {}

ArgsFor(base) ==
    {<<>>, <<strEmpty>>, <<BrickTypes[base].tid>>} \cup {<<l>> : l \in ExtraLives(base)}

Requests ==
    UNION {{Req(fn, base, lvl, arg) :
                fn \in {"Get", "GetOrCreate"}, lvl \in TopShapes(base), arg \in ArgsFor(base)} :
           base \in Bases \ (BrickBaseTypes \cup ShapeTypes \cup RegistrationTypes)}

\* the argument that stands for the live ID returned by the CloneConfig call
\* before it, as in Get[T](CloneConfig[T]())
argReturned == <<"$">>

\* the CloneConfig calls of the program
CloneRequests ==
    {Req("CloneConfig", "Conf", 1, <<>>),
     Req("CloneConfig", "Conf", 1, <<liveC>>),
     Req("CloneConfig", "Leaf", 1, <<>>),
     Req("CloneConfig", "Leaf", 1, <<liveC>>)}

\* a CloneConfig call on its own, with a resolution under the live ID it
\* returns, and the same after the source live ID was resolved
ClonePrograms ==
    {<<c>> : c \in CloneRequests}
    \cup {<<c, Req(fn, c.typ.base, 1, <<argReturned>>)>> :
             c \in CloneRequests, fn \in {"Get", "GetOrCreate"}}
    \cup {<<Req("Get", c.typ.base, 1, c.arg), c, Req("Get", c.typ.base, 1, <<argReturned>>)>> :
             c \in CloneRequests}
    \cup {<<c, Req("Get", c.typ.base, 1, <<argReturned>>), Req("Get", c.typ.base, 1, c.arg)>> :
             c \in CloneRequests}

\* the calls that are also made from several goroutines at once
ConcRequests ==
    {Req("GetOrCreate", "Leaf", 1, <<liveX>>),
     Req("Get", "Leaf", 1, <<>>),
     Req("Get", "Mid", 1, <<>>),
     Req("Get", "Root", 1, <<>>),
     Req("GetOrCreate", "Root", 1, <<liveOther>>),
     Req("Get", "A", 1, <<>>),
     Req("Get", "B", 1, <<>>)}

\* the calls whose result depends on the shape the live ID was first built in
ShapeRequests ==
    {Req("Get", "Plain", 0, <<>>),
     Req("Get", "Plain", 1, <<>>),
     Req("Get", "Wrap", 1, <<>>),
     Req("Get", "Leaf", 1, <<>>)}

\* one goroutine makes one or two of these calls, or two goroutines make one each
ShapePrograms ==
    {[t \in Threads |-> IF t = 1 THEN <<r>> ELSE <<>>] : r \in ShapeRequests}
    \cup {[t \in Threads |-> IF t = 1 THEN <<r1, r2>> ELSE <<>>] :
             r1 \in ShapeRequests, r2 \in ShapeRequests}
    \cup {[t \in Threads |-> IF t = 1 THEN <<r1>> ELSE IF t = 2 THEN <<r2>> ELSE <<>>] :
             r1 \in ShapeRequests, r2 \in ShapeRequests}

\* one goroutine runs one or two calls in a row, or every goroutine runs the
\* same call, or two goroutines run one call each
Programs ==
    {[t \in Threads |-> IF t = 1 THEN <<r>> ELSE <<>>] : r \in Requests}
    \cup {[t \in Threads |-> IF t = 1 THEN <<r1, r2>> ELSE <<>>] :
             r1 \in Requests, r2 \in Requests}
    \cup {[t \in Threads |-> <<r>>] : r \in ConcRequests}
    \cup {[t \in Threads |-> IF t = 1 THEN <<r1>> ELSE IF t = 2 THEN <<r2>> ELSE <<>>] :
             r1 \in ConcRequests, r2 \in ConcRequests}
    \cup {[t \in Threads |-> IF t = 1 THEN p ELSE <<>>] : p \in ClonePrograms}
    \cup ShapePrograms
    \cup {[t \in Threads |-> <<Req("CloneConfig", "Conf", 1, <<>>),
                                Req("Get", "Conf", 1, <<argReturned>>)>>]}

(* ------------------------------------------------------------------ *)
(* State                                                                *)
(* ------------------------------------------------------------------ *)

VARIABLES
    brickManager,     \* BrickManager: the maps that registration fills in init()
    instances,        \* BrickManager.instances: live ID -> cached reflect.Value
    brickConfigs,     \* BrickManager.brickConfigs: live ID -> BrickConfig
    declaredLiveIDs,  \* BrickManager.declaredLiveIDs
    flight,           \* buildingBrickGroup: live ID -> the goroutine running the call
    heap,             \* the struct values built so far: id -> type, live ID, fields
    builds,           \* live ID -> how many times the build function started for it
    nextRandom,       \* how many random live IDs were drawn
    stack,            \* per goroutine: the getBrickInstance frames, outermost first
    bld,              \* per goroutine: the buildingBrick maps of the live contexts
    prog,             \* per goroutine: the calls still to make
    results,          \* per goroutine: the outcome of every finished call
    status,           \* per goroutine: idle, run, panic or overflow
    err               \* per goroutine: the panic being propagated

vars == <<brickManager, instances, brickConfigs, declaredLiveIDs, flight, heap, builds, nextRandom,
          stack, bld, prog, results, status, err>>

shared == <<instances, brickConfigs, declaredLiveIDs, flight, heap, builds, nextRandom>>

\* the identity of a built struct: the live ID it was built for and which build
Id(live, n) == [live |-> live, n |-> n]

\* a reflect.Value that refers to (typ.lvl >= 1) or copies (typ.lvl = 0) a struct
Val(id, typ) == [id |-> id, typ |-> typ]

\* the zero value of a field
Nil == Val(Id(strEmpty, 0), Typ("", 0))

NoErr == "none"

\* unnamed/part_004 RandomLiveID: the n-th live ID drawn; 25 random characters
\* in the program, distinct tokens here
RandomTokens == <<"#1", "#2", "#3", "#4", "#5", "#6", "#7", "#8", "#9", "#10", "#11", "#12">>

\* a variant of RandomLiveID that returns the same string every time
RandomLiveID_same(n) == <<RandomTokens[1]>>

RandomLiveID(n) == <<RandomTokens[n]>>

\* a configuration file that AddConfigFile read: a JSON document
FileOf(configs) == [ext |-> "json", content |-> configs]

\* the BrickManager fields that do not change during resolution, and those
\* that only configuration calls change: the sync.Once of checkConfig
\* (brickConfigCheckOnce, done or not), the read locks of brickConfigLock that
\* were taken and never released, the files of AddConfigFile (configs), and
\* the live-ID constraint; checks and ingests count the runs of checkConfig
\* and the ingestions that succeeded
ManagerState(st, files) ==
    [brickTypeIDMap1 |-> st.brickTypeIDMap1,
     brickTypeIDMap2 |-> st.brickTypeIDMap2,
     brickFactories |-> st.brickFactories,
     liveIDTypeMap |-> st.liveIDTypeMap,
     liveIDConstraint |-> st.liveIDConstraint,
     brickConfigCheckOnce |-> FALSE,
     brickConfigRLocks |-> 0,
     configs |-> files,
     checks |-> 0,
     ingests |-> 0]

Init ==
    /\ brickManager = ManagerState(Manager, <<FileOf(ConfigFiles)>>)
    /\ instances = EmptyFn
    /\ brickConfigs = Manager.brickConfigs
    /\ declaredLiveIDs = Manager.declaredLiveIDs
    /\ flight = EmptyFn
    /\ heap = EmptyFn
    /\ builds = EmptyFn
    /\ nextRandom = 0
    /\ stack = [t \in Threads |-> <<>>]
    /\ bld = [t \in Threads |-> <<>>]
    /\ prog \in Programs
    /\ results = [t \in Threads |-> <<>>]
    /\ status = [t \in Threads |-> "idle"]
    /\ err = [t \in Threads |-> NoErr]

(* ------------------------------------------------------------------ *)
(* Pure helpers of the resolution engine (create.go, brick.go)          *)
(* ------------------------------------------------------------------ *)

\* the reflect.Type of an interface-typed field
IfaceTyp == Typ("interface", 0)

FieldTyp(f) == IF f.kind = "iface" THEN IfaceTyp ELSE Typ(f.base, f.lvl)

IsRegistered(typ) == typ \in DOMAIN brickManager.brickTypeIDMap1

\* create.go getBrickInstance, lines 49-74: the type ID of the requested type,
\* found for the type itself ("exact"), for a type with fewer pointer layers
\* ("lower"), or for the pointer to a requested non-pointer type ("ptr")
resolveType(typ) ==
    IF IsRegistered(typ)
    THEN [how |-> "exact", typeID |-> brickManager.brickTypeIDMap1[typ]]
    ELSE IF typ.lvl >= 1
    THEN LET found == {l \in 0 .. (typ.lvl - 1) : IsRegistered(Typ(typ.base, l))}
         IN  IF found = {} THEN [how |-> "unregistered", typeID |-> strEmpty]
             ELSE LET top == CHOOSE l \in found : \A m \in found : m <= l
                  IN  [how |-> "lower", typeID |-> brickManager.brickTypeIDMap1[Typ(typ.base, top)]]
    ELSE IF IsRegistered(Typ(typ.base, 1))
         THEN [how |-> "ptr", typeID |-> brickManager.brickTypeIDMap1[Typ(typ.base, 1)]]
         ELSE [how |-> "unregistered", typeID |-> strEmpty]

\* a variant of targetLiveID that takes the empty live ID as it is given
targetLiveID_keepsEmpty(arg, typeID) ==
    IF Len(arg) > 0 THEN arg[1] ELSE typeID

\* a variant of liveIDCollides that lets every live ID pass
liveIDCollides_never(targetLive, typeID, brickTypeIDMap2) == FALSE

\* create.go getBrickInstance, lines 82-86: the target live ID is the type ID
\* of a registered type and is not the type ID of the requested type
liveIDCollides(targetLive, typeID, brickTypeIDMap2) ==
    targetLive # typeID /\ targetLive \in DOMAIN brickTypeIDMap2

\* a variant of getBrickFromExist that never finds an instance
getBrickFromExist_misses(cache, liveID) == FALSE

\* config.go getBrickFromExist: whether an instance is cached under the live ID
getBrickFromExist(cache, liveID) == liveID \in DOMAIN cache

\* create.go getBrickInstance, lines 75-80
targetLiveID(arg, typeID) ==
    IF Len(arg) > 0 /\ arg[1] # strEmpty THEN arg[1] ELSE typeID

\* a variant of unknownLiveID that refuses for GetOrCreate as for Get
unknownLiveID_ignoresCreate(createUnknown, live, typeID, declared) ==
    live # typeID /\ live \notin declared

\* create.go getBrickInstance, line 92: a live ID that Get refuses to build
unknownLiveID(createUnknown, live, typeID, declared) ==
    ~createUnknown /\ live # typeID /\ live \notin declared

\* whether the struct type itself (not only its pointer) has the methods of an
\* interface: only with value receivers
valueImplements(base) == base \in Bases /\ BrickTypes[base].recv = "val"

\* reflect.Value.Elem of a pointer
Elem(v) == Val(v.id, Typ(v.typ.base, v.typ.lvl - 1))

\* wrapPointerLayer: a pointer, made with reflect.New, that is set to the value
wrapPointerLayer(v) == Val(v.id, Typ(v.typ.base, v.typ.lvl + 1))

\* the reflect operations of a loop that runs n times
Times(op, n) == [i \in 1 .. n |-> op]

opElem == "Elem"
opWrap == "wrapPointerLayer"

\* a variant of convertOps that peels an instance down to one pointer layer and
\* no further
convertOps_keepsPointer(instance, targetType) ==
    LET retLevel == instance.typ.lvl
    IN  IF instance.typ = targetType THEN <<>>
        ELSE IF targetType = IfaceTyp
        THEN IF retLevel > 1 THEN Times(opElem, retLevel - 1)
             ELSE IF retLevel = 0 /\ ~valueImplements(instance.typ.base) THEN <<opWrap>>
             ELSE <<>>
        ELSE IF retLevel > targetType.lvl
        THEN Times(opElem, IF targetType.lvl = 0 THEN retLevel - 1 ELSE retLevel - targetType.lvl)
        ELSE IF retLevel < targetType.lvl THEN Times(opWrap, targetType.lvl - retLevel)
        ELSE <<>>

\* create.go convertInstance, lines 140-170: the Elem and wrapPointerLayer
\* calls it makes on the instance, in order
convertOps(instance, targetType) ==
    LET retLevel == instance.typ.lvl
    IN  IF instance.typ = targetType THEN <<>>
        ELSE IF targetType = IfaceTyp
        THEN IF retLevel > 1 THEN Times(opElem, retLevel - 1)
             ELSE IF retLevel = 0 /\ ~valueImplements(instance.typ.base) THEN <<opWrap>>
             ELSE <<>>
        ELSE IF retLevel > targetType.lvl THEN Times(opElem, retLevel - targetType.lvl)
        ELSE IF retLevel < targetType.lvl THEN Times(opWrap, targetType.lvl - retLevel)
        ELSE <<>>

RECURSIVE applyOps(_, _)
\* the value after the reflect operations ops
applyOps(v, ops) ==
    IF ops = <<>> THEN v
    ELSE applyOps(IF Head(ops) = opElem THEN Elem(v) ELSE wrapPointerLayer(v), Tail(ops))

\* create.go convertInstance
convertInstance(instance, targetType) == applyOps(instance, convertOps(instance, targetType))

\* whether reflect.Value.Set, or the type assertion of Get, accepts the value
Assignable(v, targetType) == targetType = IfaceTyp \/ v.typ = targetType

\* brick.go getBrickLives and create.go injectBrick, lines 183-192: the Live
\* entry of the struct's type for the live ID being built, if any
brickLiveOf(base, brickLiveID) ==
    LET lives == BrickTypes[base].lives
        hits == {i \in DOMAIN lives : lives[i].LiveID = brickLiveID}
    IN  IF hits = {} THEN [found |-> FALSE, RelyLives |-> EmptyFn]
        ELSE [found |-> TRUE,
              RelyLives |-> lives[CHOOSE i \in hits : \A j \in hits : i <= j].RelyLives]

\* a variant of effectiveTag that ignores the lives of the type
effectiveTag_static(base, brickLiveID, f) == f.tag

\* create.go injectBrick, lines 215-221: the tag that governs a field
effectiveTag(base, brickLiveID, f) ==
    LET live == brickLiveOf(base, brickLiveID)
    IN  IF live.found /\ f.name \in DOMAIN live.RelyLives
        THEN live.RelyLives[f.name] ELSE f.tag

\* config.go checkConfig: a payload for a type without factory is fatal
checkConfigFails(configs) ==
    \E l \in DOMAIN configs :
        /\ configs[l].Config # "nil"
        /\ ~configs[l].noCheck
        /\ configs[l].TypeID \notin brickManager.brickFactories

(* ------------------------------------------------------------------ *)
(* Frames                                                               *)
(* ------------------------------------------------------------------ *)

NoId == Id(strEmpty, 0)

\* a call of getBrickInstance(typ, ctx, arg...): ctx is the index of its
\* buildingBrick map in bld, cu is ctx.createUnknown, ownctx tells that the map
\* was made for this call (Get, GetOrCreate, cloneBrick)
Frame(typ, arg, cu, ctx, ownctx) ==
    [typ |-> typ, arg |-> arg, cu |-> cu, ctx |-> ctx, ownctx |-> ownctx,
     pc |-> "enter", tid |-> strEmpty, live |-> strEmpty, elem |-> FALSE,
     marked |-> FALSE, exec |-> FALSE, inst |-> NoId, lvl |-> 0, fi |-> 0,
     ret |-> Nil, reterr |-> NoErr]

Top(t) == stack[t][Len(stack[t])]

Running(t, pc) == status[t] = "run" /\ stack[t] # <<>> /\ Top(t).pc = pc

\* the goroutine-local state of t
Local(t) ==
    [stack |-> stack[t], bld |-> bld[t], prog |-> prog[t], results |-> results[t],
     status |-> status[t], err |-> err[t]]

\* the local state of t with its top frame replaced
WithTop(L, fr) == [L EXCEPT !.stack = [@ EXCEPT ![Len(@)] = fr]]

\* a variant of LeaveTop without the deferred reset of buildingBrick
LeaveTop_keepsMark(L) ==
    [L EXCEPT !.stack = SubSeq(@, 1, Len(@) - 1),
              !.bld = IF L.stack[Len(L.stack)].ownctx THEN SubSeq(@, 1, Len(@) - 1) ELSE @]

\* the deferred reset of buildingBrick and the end of a context, when the top
\* frame is left
LeaveTop(L) ==
    LET fr == L.stack[Len(L.stack)]
        unmarked == IF fr.marked
                    THEN [L.bld EXCEPT ![fr.ctx] = @ \ {fr.typ}] ELSE L.bld
    IN  [L EXCEPT !.stack = SubSeq(@, 1, Len(@) - 1),
                  !.bld = IF fr.ownctx THEN SubSeq(unmarked, 1, Len(unmarked) - 1)
                          ELSE unmarked]

\* a panic starts in goroutine-local state L
Panicked(L, e) == [L EXCEPT !.status = "panic", !.err = e]

\* the local state and heap after the top frame returned v: to Get or
\* GetOrCreate, which assert the type T, or to injectBrick, which sets the
\* field it was resolving
Returned(L, hp, v) ==
    LET fr == L.stack[Len(L.stack)]
        out == IF fr.elem THEN Elem(v) ELSE v
        left == LeaveTop(L)
    IN  IF left.stack = <<>>
        THEN LET ok == Assignable(out, Head(L.prog).typ)
             IN  [L |-> [left EXCEPT
                             !.prog = Tail(@),
                             !.status = "idle",
                             !.results = Append(@, [req |-> Head(L.prog), ok |-> ok,
                                                    val |-> IF ok THEN out ELSE Nil,
                                                    err |-> IF ok THEN NoErr ELSE "typeAssert"])],
                  heap |-> hp]
        ELSE LET c == left.stack[Len(left.stack)]
                 f == BrickTypes[hp[c.inst].base].fields[c.fi]
             IN  IF Assignable(out, FieldTyp(f))
                 THEN [L |-> WithTop(left, [c EXCEPT !.pc = "inject", !.fi = @ + 1]),
                       heap |-> [hp EXCEPT ![c.inst].flds[f.name] = out]]
                 ELSE [L |-> Panicked(left, "setType"), heap |-> hp]

\* a goroutine blocked in singleflight's wg.Wait for key is released with the
\* result (or panic) of the call
Wake(stk, key, v, e) ==
    IF stk # <<>> /\ stk[Len(stk)].pc = "wait" /\ stk[Len(stk)].live = key
    THEN [stk EXCEPT ![Len(stk)] = [@ EXCEPT !.pc = "woken", !.ret = v, !.reterr = e]]
    ELSE stk

\* assign the goroutine-local variables: L for t, the others unchanged
\* (SetLocal: and the BrickManager fields unchanged)
SetLocalOnly(t, L) ==
    /\ stack' = [stack EXCEPT ![t] = L.stack]
    /\ bld' = [bld EXCEPT ![t] = L.bld]
    /\ prog' = [prog EXCEPT ![t] = L.prog]
    /\ results' = [results EXCEPT ![t] = L.results]
    /\ status' = [status EXCEPT ![t] = L.status]
    /\ err' = [err EXCEPT ![t] = L.err]

SetLocal(t, L) == UNCHANGED brickManager /\ SetLocalOnly(t, L)

\* the same, and the goroutines waiting for key are released
SetLocalAndWake(t, L, key, v, e) ==
    /\ UNCHANGED brickManager
    /\ stack' = [u \in Threads |-> IF u = t THEN L.stack ELSE Wake(stack[u], key, v, e)]
    /\ bld' = [bld EXCEPT ![t] = L.bld]
    /\ prog' = [prog EXCEPT ![t] = L.prog]
    /\ results' = [results EXCEPT ![t] = L.results]
    /\ status' = [status EXCEPT ![t] = L.status]
    /\ err' = [err EXCEPT ![t] = L.err]

(* ------------------------------------------------------------------ *)
(* Get / GetOrCreate and getBrickInstance                               *)
(* ------------------------------------------------------------------ *)

\* sync.RWMutex: Lock of brickConfigLock, which setBrickConfig takes, never
\* returns while a read lock that was not released is held
writerBlocks(bm) == bm.brickConfigRLocks > 0

\* the calls to come after a CloneConfig call, with the live ID it returned
\* put in; when CloneConfig panicked, the call that takes its result is not made
WithReturned(calls, ok, newLiveID) ==
    IF calls # <<>> /\ Head(calls).arg = <<argReturned>>
    THEN IF ok THEN <<[Head(calls) EXCEPT !.arg = <<newLiveID>>]>> \o Tail(calls)
         ELSE Tail(calls)
    ELSE calls

\* create.go CloneConfig: a random live ID is drawn; the configuration entry
\* of the source live ID is stored under it and it is declared, or the call
\* panics when the source has no entry
CloneConfig(t) ==
    /\ status[t] = "idle"
    /\ prog[t] # <<>>
    /\ Head(prog[t]).fn = "CloneConfig"
    /\ nextRandom < Len(RandomTokens)
    /\ LET r == Head(prog[t])
           cloneId == IF Len(r.arg) > 0 /\ r.arg[1] # strEmpty
                      THEN r.arg[1] ELSE BrickTypes[r.typ.base].tid
           newLiveID == RandomLiveID(nextRandom + 1)
           ok == cloneId \in DOMAIN brickConfigs
       IN  /\ nextRandom' = nextRandom + 1
           /\ IF ok /\ writerBlocks(brickManager)
              THEN /\ SetLocal(t, [Local(t) EXCEPT !.status = "blocked"])
                   /\ UNCHANGED <<brickConfigs, declaredLiveIDs>>
              ELSE /\ brickConfigs' = IF ok THEN setBrickConfig(brickConfigs, newLiveID,
                                                                brickConfigs[cloneId])
                                       ELSE brickConfigs
                   /\ declaredLiveIDs' = IF ok THEN declaredLiveIDs \cup {newLiveID}
                                          ELSE declaredLiveIDs
                   /\ SetLocal(t, [Local(t) EXCEPT
                           !.prog = WithReturned(Tail(@), ok, newLiveID),
                           !.results = Append(@, [req |-> r, ok |-> ok,
                                                  val |-> IF ok
                                                          THEN Val(Id(newLiveID, 0), Typ("", 0))
                                                          ELSE Nil,
                                                  err |-> IF ok THEN NoErr ELSE "noConfig"])])
    /\ UNCHANGED <<instances, flight, heap, builds>>

\* a variant of onceDo that runs the function at every call
onceDo_always(done) == TRUE

\* sync.Once.Do: whether the function is run; the Once is done afterwards,
\* also when the function panicked
onceDo(done) == ~done

\* create.go Get and GetOrCreate: checkConfig under brickConfigCheckOnce (a
\* panic of checkConfig leaves its read lock of brickConfigLock taken), a
\* fresh context, and the call of getBrickInstance
StartCall(t) ==
    /\ status[t] = "idle"
    /\ prog[t] # <<>>
    /\ Head(prog[t]).fn \in {"Get", "GetOrCreate"}
    /\ LET r == Head(prog[t])
           runs == onceDo(brickManager.brickConfigCheckOnce)
           fails == runs /\ checkConfigFails(brickConfigs)
       IN  /\ brickManager' = [brickManager EXCEPT
                                  !.brickConfigCheckOnce = TRUE,
                                  !.checks = IF runs THEN @ + 1 ELSE @,
                                  !.brickConfigRLocks = IF fails THEN @ + 1 ELSE @]
           /\ IF fails
              THEN SetLocalOnly(t, [Local(t) EXCEPT
                       !.prog = Tail(@),
                       !.results = Append(@, [req |-> r, ok |-> FALSE, val |-> Nil,
                                              err |-> "checkConfig"])])
              ELSE SetLocalOnly(t, [Local(t) EXCEPT
                       !.stack = <<Frame(r.typ, r.arg, r.fn = "GetOrCreate", 1, TRUE)>>,
                       !.bld = <<{}>>,
                       !.status = "run"])
    /\ UNCHANGED shared

\* create.go getBrickInstance, lines 49-102: type lookup, target live ID, the
\* cache, the unknown-live-ID check and the cycle guard
Enter(t) ==
    /\ Running(t, "enter")
    /\ LET fr == Top(t)
           rt == resolveType(fr.typ)
           typ == IF rt.how = "ptr" THEN Typ(fr.typ.base, 1) ELSE fr.typ
           live == targetLiveID(fr.arg, rt.typeID)
           at == [fr EXCEPT !.typ = typ, !.elem = (rt.how = "ptr"),
                            !.tid = rt.typeID, !.live = live]
           L == WithTop(Local(t), at)
       IN  IF rt.how = "unregistered"
           THEN SetLocal(t, Panicked(L, "unregistered")) /\ UNCHANGED heap
           ELSE IF liveIDCollides(live, rt.typeID, brickManager.brickTypeIDMap2)
           THEN SetLocal(t, Panicked(L, "collision")) /\ UNCHANGED heap
           ELSE IF getBrickFromExist(instances, live)
           THEN LET r == Returned(L, heap, convertInstance(instances[live], typ))
                IN  SetLocal(t, r.L) /\ heap' = r.heap
           ELSE IF unknownLiveID(fr.cu, live, rt.typeID, declaredLiveIDs)
           THEN SetLocal(t, Panicked(L, "undeclared")) /\ UNCHANGED heap
           ELSE IF typ \in bld[t][fr.ctx]
           THEN SetLocal(t, Panicked(L, "circular")) /\ UNCHANGED heap
           ELSE /\ SetLocal(t, [WithTop(L, [at EXCEPT !.pc = "do", !.marked = TRUE])
                                  EXCEPT !.bld[fr.ctx] = @ \cup {typ}])
                /\ UNCHANGED heap
    /\ UNCHANGED <<instances, brickConfigs, declaredLiveIDs, flight, builds, nextRandom>>

\* singleflight Group.Do, called at create.go line 104: join the call in
\* flight for the live ID, or become the one that runs the build function
DoCall(t) ==
    /\ Running(t, "do")
    /\ LET fr == Top(t)
       IN  IF fr.live \in DOMAIN flight
           THEN /\ SetLocal(t, WithTop(Local(t), [fr EXCEPT !.pc = "wait"]))
                /\ UNCHANGED flight
           ELSE /\ SetLocal(t, WithTop(Local(t), [fr EXCEPT !.pc = "build", !.exec = TRUE]))
                /\ flight' = (fr.live :> t) @@ flight
    /\ UNCHANGED <<instances, brickConfigs, declaredLiveIDs, heap, builds, nextRandom>>

\* a variant of configTypeIDMismatch that accepts every entry
configTypeIDMismatch_never(brickConfig, typeID) == FALSE

\* create.go getBrickInstance, lines 110-112: the entry of the configuration
\* store is for another type
configTypeIDMismatch(brickConfig, typeID) == brickConfig.TypeID # typeID

\* a variant of builtLevel that always makes a pointer of one layer
builtLevel_single(typ, hasFactory) == 1

\* the pointer depth of the value the build function injects and saves:
\* createEmptyPtrInstance keeps the layers of a pointer type, a factory returns
\* a pointer or a value that is wrapped once
builtLevel(typ, hasFactory) ==
    IF hasFactory THEN 1 ELSE IF typ.lvl > 1 THEN typ.lvl ELSE 1

\* a variant of baseLiveID that gives every instance the type ID of its type
baseLiveID_typeID(base, brickLiveID) ==
    IF base \in EmbedsBrickBase THEN BrickTypes[base].tid ELSE strEmpty

\* create.go injectBrick, lines 199-214: the liveID of the embedded BrickBase,
\* the first field of the struct, becomes the live ID being built; it is the
\* empty string where there is no BrickBase
baseLiveID(base, brickLiveID) ==
    IF base \in EmbedsBrickBase THEN brickLiveID ELSE strEmpty

\* config.go handleConfigHelper: conf is the payload handed to the factory;
\* stored is what the payload object holds afterwards, a map being rewritten
\* in place (val[k] = c) and a string being replaced by a new string
handleConfigHelper(config) ==
    CASE config = cfgEnvItem -> [conf |-> "v", maybeReplaced |-> TRUE, stored |-> config]
      [] config = cfgEnvMap -> [conf |-> "{k:v}", maybeReplaced |-> FALSE, stored |-> "{k:v}"]
      [] OTHER -> [conf |-> config, maybeReplaced |-> FALSE, stored |-> config]

\* config.go handleConfig
handleConfig(config) == handleConfigHelper(config).conf

\* the Config Store after handleConfig ran on the payload of liveID: the
\* entries that hold the same payload object (an entry and its clones; no two
\* documents of the model carry equal payloads) see what was written to it
payloadWritten(configs, liveID) ==
    [l \in DOMAIN configs |->
        IF configs[l].Config = configs[liveID].Config
        THEN [configs[l] EXCEPT !.Config = handleConfigHelper(@).stored]
        ELSE configs[l]]

\* create.go getBrickInstance, lines 105-131: the configuration entry is
\* checked and the factory, or createEmptyPtrInstance, makes the struct, whose
\* BrickBase injectBrick fills in first
Build(t) ==
    /\ Running(t, "build")
    /\ LET fr == Top(t)
           configExist == fr.live \in DOMAIN brickConfigs
           parserExist == fr.tid \in brickManager.brickFactories
           n == IF fr.live \in DOMAIN builds THEN builds[fr.live] + 1 ELSE 1
           id == Id(fr.live, n)
           names == {BrickTypes[fr.typ.base].fields[i].name :
                        i \in DOMAIN BrickTypes[fr.typ.base].fields}
       IN  IF configExist /\ brickConfigs[fr.live].LiveID # fr.live
           THEN SetLocal(t, Panicked(Local(t), "configLiveID"))
                /\ UNCHANGED <<heap, builds, brickConfigs>>
           ELSE IF configExist /\ configTypeIDMismatch(brickConfigs[fr.live], fr.tid)
           THEN SetLocal(t, Panicked(Local(t), "configTypeID"))
                /\ UNCHANGED <<heap, builds, brickConfigs>>
           ELSE /\ builds' = (fr.live :> n) @@ builds
                /\ heap' = (id :> [base |-> fr.typ.base, live |-> fr.live,
                                   liveID |-> baseLiveID(fr.typ.base, fr.live),
                                   data |-> IF ~parserExist THEN "zero"
                                            ELSE IF configExist
                                            THEN handleConfig(brickConfigs[fr.live].Config)
                                            ELSE "nil",
                                   flds |-> [f \in names |-> Nil]]) @@ heap
                /\ brickConfigs' = IF parserExist /\ configExist
                                   THEN payloadWritten(brickConfigs, fr.live)
                                   ELSE brickConfigs
                /\ SetLocal(t, WithTop(Local(t),
                       [fr EXCEPT !.pc = "inject", !.inst = id, !.fi = 1,
                                  !.lvl = builtLevel(fr.typ, parserExist)]))
    /\ UNCHANGED <<instances, declaredLiveIDs, flight, nextRandom>>

(* ------------------------------------------------------------------ *)
(* injectBrick, injectInterfaceBrick and cloneBrick                     *)
(* ------------------------------------------------------------------ *)

\* the local state after injectBrick, in the top frame, calls
\* getBrickInstance(typ, ctx, liveID), with a context of its own when the call
\* comes from cloneBrick; a goroutine stack that cannot grow ends the program
Called(L, typ, liveID, cu, ownctx) ==
    LET fr == L.stack[Len(L.stack)]
        ctx == IF ownctx THEN Len(L.bld) + 1 ELSE fr.ctx
    IN  IF Len(L.stack) >= MaxDepth
        THEN [L EXCEPT !.status = "overflow"]
        ELSE [WithTop(L, [fr EXCEPT !.pc = "call"]) EXCEPT
                 !.stack = Append(@, Frame(typ, <<liveID>>, cu, ctx, ownctx)),
                 !.bld = IF ownctx THEN Append(@, {}) ELSE @]

\* create.go lines 118-119 and 135-136, and the end of Group.Do: the injected
\* instance is saved, the call leaves the flight group, the waiting goroutines
\* get its value, and getBrickInstance returns
Finish(t) ==
    LET fr == Top(t)
        ret == Val(fr.inst, Typ(fr.typ.base, fr.lvl))
        out == convertInstance(ret, fr.typ)
        r == Returned(Local(t), heap, out)
    IN  /\ instances' = (fr.live :> ret) @@ instances
        /\ flight' = [k \in DOMAIN flight \ {fr.live} |-> flight[k]]
        /\ heap' = r.heap
        /\ SetLocalAndWake(t, r.L, fr.live, out, NoErr)
        /\ UNCHANGED <<brickConfigs, declaredLiveIDs, builds, nextRandom>>

\* create.go cloneBrick: a new random live ID gets the source's configuration
\* entry, if there is one, and is resolved in a fresh context with
\* createUnknown set; the goroutine hangs in setBrickConfig when a read lock of
\* brickConfigLock was left taken
CloneCall(t, typ, liveID) ==
    LET newLiveID == RandomLiveID(nextRandom + 1)
    IN  /\ nextRandom < Len(RandomTokens)
        /\ nextRandom' = nextRandom + 1
        /\ IF liveID \in DOMAIN brickConfigs /\ writerBlocks(brickManager)
           THEN /\ SetLocal(t, [Local(t) EXCEPT !.status = "blocked"])
                /\ UNCHANGED brickConfigs
           ELSE /\ brickConfigs' = IF liveID \in DOMAIN brickConfigs
                                   THEN setBrickConfig(brickConfigs, newLiveID,
                                                       brickConfigs[liveID])
                                   ELSE brickConfigs
                /\ SetLocal(t, Called(Local(t), typ, newLiveID, TRUE, TRUE))
        /\ UNCHANGED <<instances, declaredLiveIDs, flight, heap, builds>>

\* a panic raised in injectBrick
InjectPanic(t, e) ==
    /\ SetLocal(t, Panicked(Local(t), e))
    /\ UNCHANGED shared

\* a variant of interfaceTarget that does not take the type ID of the tag for
\* a live ID that is not given
interfaceTarget_needsLiveID(tag, cache, configs) ==
    LET p == parseTag(tag)
        how == [err |-> NoErr, liveID |-> p.liveID, isClone |-> p.isClone,
                cached |-> FALSE, typ |-> IfaceTyp]
    IN  IF p.isRandomLiveID THEN [how EXCEPT !.err = "ifaceRandom"]
        ELSE IF p.liveID = strEmpty THEN [how EXCEPT !.err = "ifaceNoLiveID"]
        ELSE IF getBrickFromExist(cache, p.liveID)
        THEN [how EXCEPT !.cached = TRUE, !.typ = cache[p.liveID].typ]
        ELSE IF p.typeID # strEmpty /\ p.typeID \in DOMAIN brickManager.brickTypeIDMap2
        THEN [how EXCEPT !.typ = brickManager.brickTypeIDMap2[p.typeID]]
        ELSE [how EXCEPT !.err = "ifaceUnresolved"]

\* a variant of interfaceTarget that asks the type ID of the tag before the
\* configuration store
interfaceTarget_tagFirst(tag, cache, configs) ==
    LET p == parseTag(tag)
        liveID == IF p.liveID = strEmpty THEN p.typeID ELSE p.liveID
        how == [err |-> NoErr, liveID |-> liveID, isClone |-> p.isClone,
                cached |-> FALSE, typ |-> IfaceTyp]
    IN  IF p.isRandomLiveID THEN [how EXCEPT !.err = "ifaceRandom"]
        ELSE IF liveID = strEmpty THEN [how EXCEPT !.err = "ifaceNoLiveID"]
        ELSE IF getBrickFromExist(cache, liveID)
        THEN [how EXCEPT !.cached = TRUE, !.typ = cache[liveID].typ]
        ELSE IF p.typeID # strEmpty
        THEN IF p.typeID \notin DOMAIN brickManager.brickTypeIDMap2
             THEN [how EXCEPT !.err = "ifaceNotFound"]
             ELSE [how EXCEPT !.typ = brickManager.brickTypeIDMap2[p.typeID]]
        ELSE IF liveID \in DOMAIN configs
        THEN IF configs[liveID].TypeID \notin DOMAIN brickManager.brickTypeIDMap2
             THEN [how EXCEPT !.err = "ifaceNotFound"]
             ELSE [how EXCEPT !.typ = brickManager.brickTypeIDMap2[configs[liveID].TypeID]]
        ELSE IF liveID \in DOMAIN brickManager.liveIDTypeMap
        THEN [how EXCEPT !.typ = brickManager.liveIDTypeMap[liveID]]
        ELSE [how EXCEPT !.err = "ifaceUnresolved"]

\* create.go injectInterfaceBrick: what the four strategies decide for a tag
interfaceTarget(tag, cache, configs) ==
    LET p == parseTag(tag)
        liveID == IF p.liveID = strEmpty THEN p.typeID ELSE p.liveID
        how == [err |-> NoErr, liveID |-> liveID, isClone |-> p.isClone,
                cached |-> FALSE, typ |-> IfaceTyp]
    IN  IF p.isRandomLiveID THEN [how EXCEPT !.err = "ifaceRandom"]
        ELSE IF liveID = strEmpty THEN [how EXCEPT !.err = "ifaceNoLiveID"]
        ELSE IF getBrickFromExist(cache, liveID)
        THEN [how EXCEPT !.cached = TRUE, !.typ = cache[liveID].typ]
        ELSE IF liveID \in DOMAIN configs
        THEN IF p.typeID # strEmpty /\ configs[liveID].TypeID # p.typeID
             THEN [how EXCEPT !.err = "ifaceTypeID"]
             ELSE IF configs[liveID].TypeID \notin DOMAIN brickManager.brickTypeIDMap2
             THEN [how EXCEPT !.err = "ifaceNotFound"]
             ELSE [how EXCEPT !.typ = brickManager.brickTypeIDMap2[configs[liveID].TypeID]]
        ELSE IF p.typeID # strEmpty
        THEN IF p.typeID \notin DOMAIN brickManager.brickTypeIDMap2
             THEN [how EXCEPT !.err = "ifaceNotFound"]
             ELSE [how EXCEPT !.typ = brickManager.brickTypeIDMap2[p.typeID]]
        ELSE IF liveID \in DOMAIN brickManager.liveIDTypeMap
        THEN [how EXCEPT !.typ = brickManager.liveIDTypeMap[liveID]]
        ELSE [how EXCEPT !.err = "ifaceUnresolved"]

\* create.go injectInterfaceBrick
InjectInterface(t, f, tag) ==
    LET fr == Top(t)
        how == interfaceTarget(tag, instances, brickConfigs)
    IN  IF how.err # NoErr THEN InjectPanic(t, how.err)
        ELSE IF how.isClone THEN CloneCall(t, how.typ, how.liveID)
        ELSE IF how.cached
        THEN /\ heap' = [heap EXCEPT ![fr.inst].flds[f.name] =
                            convertInstance(instances[how.liveID], IfaceTyp)]
             /\ SetLocal(t, WithTop(Local(t), [fr EXCEPT !.fi = @ + 1]))
             /\ UNCHANGED <<instances, brickConfigs, declaredLiveIDs, flight, builds,
                            nextRandom>>
        ELSE /\ SetLocal(t, Called(Local(t), how.typ, how.liveID, fr.cu, FALSE))
             /\ UNCHANGED shared

\* create.go injectBrick, lines 193-244, for the field the loop is at
InjectField(t, f) ==
    LET fr == Top(t)
        tag == effectiveTag(heap[fr.inst].base, fr.live, f)
        p == parseTag(tag)
        typ == FieldTyp(f)
    IN  IF ~f.exported
        THEN /\ SetLocal(t, WithTop(Local(t), [fr EXCEPT !.fi = @ + 1]))
             /\ UNCHANGED shared
        ELSE IF f.kind = "iface" THEN InjectInterface(t, f, tag)
        ELSE IF p.isRandomLiveID
        THEN /\ nextRandom < Len(RandomTokens)
             /\ nextRandom' = nextRandom + 1
             /\ SetLocal(t, Called(Local(t), typ, RandomLiveID(nextRandom + 1), TRUE, FALSE))
             /\ UNCHANGED <<instances, brickConfigs, declaredLiveIDs, flight, heap, builds>>
        ELSE IF p.isClone
        THEN IF p.liveID # strEmpty THEN CloneCall(t, typ, p.liveID)
             ELSE IF IsRegistered(typ)
             THEN CloneCall(t, typ, brickManager.brickTypeIDMap1[typ])
             ELSE InjectPanic(t, "unexpected")
        ELSE /\ SetLocal(t, Called(Local(t), typ, p.liveID, fr.cu, FALSE))
             /\ UNCHANGED shared

\* create.go injectBrick, run by the build function on the new struct: one
\* field per step, and the save and return once the loop is over
Inject(t) ==
    /\ Running(t, "inject")
    /\ LET fields == BrickTypes[heap[Top(t).inst].base].fields
       IN  IF Top(t).fi > Len(fields) THEN Finish(t)
           ELSE InjectField(t, fields[Top(t).fi])

\* Group.Do returns in a goroutine that waited: the value of the call, or its panic
Woken(t) ==
    /\ Running(t, "woken")
    /\ LET fr == Top(t)
       IN  IF fr.reterr # NoErr
           THEN SetLocal(t, Panicked(Local(t), fr.reterr)) /\ UNCHANGED heap
           ELSE LET r == Returned(Local(t), heap, fr.ret)
                IN  SetLocal(t, r.L) /\ heap' = r.heap
    /\ UNCHANGED <<instances, brickConfigs, declaredLiveIDs, flight, builds, nextRandom>>

\* a panic unwinds one frame: the deferred reset of buildingBrick runs, and
\* singleflight's doCall releases the live ID and passes the panic to the
\* waiting goroutines; the caller of Get recovers it
Unwind(t) ==
    /\ status[t] = "panic"
    /\ IF stack[t] = <<>>
       THEN /\ SetLocal(t, [Local(t) EXCEPT
                   !.prog = Tail(@),
                   !.results = Append(@, [req |-> Head(prog[t]), ok |-> FALSE,
                                          val |-> Nil, err |-> err[t]]),
                   !.status = "idle",
                   !.err = NoErr])
            /\ UNCHANGED flight
       ELSE IF Top(t).exec
       THEN /\ flight' = [k \in DOMAIN flight \ {Top(t).live} |-> flight[k]]
            /\ SetLocalAndWake(t, LeaveTop(Local(t)), Top(t).live, Nil, err[t])
       ELSE /\ SetLocal(t, LeaveTop(Local(t)))
            /\ UNCHANGED flight
    /\ UNCHANGED <<instances, brickConfigs, declaredLiveIDs, heap, builds, nextRandom>>

Next ==
    \E t \in Threads :
        \/ StartCall(t)
        \/ CloneConfig(t)
        \/ Enter(t)
        \/ DoCall(t)
        \/ Build(t)
        \/ Inject(t)
        \/ Woken(t)
        \/ Unwind(t)

Spec == Init /\ [][Next]_vars

(* ------------------------------------------------------------------ *)
(* Configuration calls at run time (config.go)                          *)
(* ------------------------------------------------------------------ *)

\* the longest sequence of configuration and resolution calls
MaxCfgCalls == 3

\* a type ID that no registered type has
tidGhost == <<"W">>

\* one document of a configuration file
Doc(typeID, noCheck, lives) ==
    [MetaData |-> [TypeID |-> typeID, NoCheck |-> noCheck], Lives |-> lives]

LiveConf(liveID, config) == [LiveID |-> liveID, Config |-> config]

\* the configuration files the program reads at run time
docGhost == <<Doc(tidGhost, FALSE, <<LiveConf(tidGhost, "v1")>>)>>
docGhostNoCheck == <<Doc(tidGhost, TRUE, <<LiveConf(tidGhost, "v1")>>)>>
docLeafNil == <<Doc(tidLeaf, FALSE, <<LiveConf(tidLeaf, "nil"), LiveConf(liveX, "nil")>>)>>
docLeafPayload == <<Doc(tidLeaf, FALSE, <<LiveConf(tidLeaf, "v1")>>)>>
docTwice ==
    <<Doc(tidLeaf, FALSE,
          <<LiveConf(tidLeaf, "nil"), LiveConf(liveW, "nil"), LiveConf(liveW, "nil")>>)>>
docLoose == <<Doc(tidLeaf, FALSE, <<LiveConf(liveOther, "nil")>>)>>
docMixed == <<Doc(tidMid, FALSE, <<LiveConf(tidMid, "nil"), LiveConf(liveX, "nil")>>)>>
docPartial ==
    <<Doc(tidGhost, TRUE, <<LiveConf(tidGhost, "nil")>>),
      Doc(tidLeaf, FALSE, <<LiveConf(tidLeaf, "v1")>>)>>
docAcross ==
    <<Doc(tidLeaf, FALSE, <<LiveConf(tidLeaf, "nil")>>),
      Doc(tidMid, FALSE, <<LiveConf(tidMid, "nil"), LiveConf(tidLeaf, "nil")>>)>>

docBased == <<Doc(tidBased, FALSE, <<LiveConf(tidBased, "nil")>>)>>

Docs ==
    {ConfigFiles, docGhost, docGhostNoCheck, docLeafNil, docLeafPayload, docTwice, docLoose,
     docMixed, docPartial, docAcross}

\* a call of AddConfigFile or SetLiveIDConstraint: arg is the content of the
\* file (each call reads a file of its own), or the new value of the constraint
CfgReq(fn, arg) == [fn |-> fn, typ |-> Typ("", 0), arg |-> arg]

\* the receiver of a call of a BrickBase method: the instance that the call
\* before it returned, or new(Based), which was never injected
onReturned == "returned"
onNew == "new"

\* a call of a method of the BrickBase of a *Based
BaseReq(fn, on) == [fn |-> fn, typ |-> Typ("Based", 1), arg |-> on]

\* the calls of a goroutine that ingests configuration and resolves
CfgCalls ==
    {CfgReq("AddConfigFile", d) : d \in Docs}
    \cup {CfgReq("SetLiveIDConstraint", b) : b \in BOOLEAN}
    \cup {Req("Get", "Leaf", 1, <<>>), Req("Get", "Leaf", 1, <<liveOther>>),
          Req("Get", "Conf", 1, <<>>), Req("Get", "Pool", 1, <<>>)}
    \cup {Req("Get", "Based", 1, <<>>), Req("GetOrCreate", "Based", 1, <<liveOther>>),
          Req("Get", "Kit", 1, <<>>)}
    \cup {BaseReq(fn, on) : fn \in {"BrickLiveID", "SaveBrickConfig"},
                             on \in {onReturned, onNew}}

\* a file is read, or not, a *Based is resolved and its configuration is saved
SavePrograms ==
    {<<CfgReq("AddConfigFile", d), r, BaseReq("SaveBrickConfig", onReturned)>> :
        d \in {docBased, docLeafNil},
        r \in {Req("Get", "Based", 1, <<>>), Req("GetOrCreate", "Based", 1, <<liveOther>>)}}

\* the calls that are also made three and more in a row
CfgCore ==
    {CfgReq("AddConfigFile", d) : d \in {ConfigFiles, docGhost, docLoose}}
    \cup {CfgReq("SetLiveIDConstraint", FALSE),
          Req("Get", "Leaf", 1, <<>>), Req("Get", "Leaf", 1, <<liveOther>>),
          Req("Get", "Pool", 1, <<>>)}

RECURSIVE CfgSeqs(_)
CfgSeqs(n) ==
    IF n = 0 THEN {<<>>} ELSE {Append(p, r) : p \in CfgSeqs(n - 1), r \in CfgCore}

\* one call, two calls, or up to MaxCfgCalls calls in a row, by one goroutine
CfgPrograms ==
    {<<r>> : r \in CfgCalls}
    \cup {<<r1, r2>> : r1 \in CfgCalls, r2 \in CfgCalls}
    \cup SavePrograms
    \cup UNION {CfgSeqs(n) : n \in 3 .. MaxCfgCalls}

\* the program has registered its types and has read no configuration file
CfgInit ==
    /\ brickManager = ManagerState(Registered, <<>>)
    /\ instances = EmptyFn
    /\ brickConfigs = EmptyFn
    /\ declaredLiveIDs = Registered.declaredLiveIDs
    /\ flight = EmptyFn
    /\ heap = EmptyFn
    /\ builds = EmptyFn
    /\ nextRandom = 0
    /\ stack = [t \in Threads |-> <<>>]
    /\ bld = [t \in Threads |-> <<>>]
    /\ \E p \in CfgPrograms : prog = [t \in Threads |-> IF t = 1 THEN p ELSE <<>>]
    /\ results = [t \in Threads |-> <<>>]
    /\ status = [t \in Threads |-> "idle"]
    /\ err = [t \in Threads |-> NoErr]

\* the outcome of a configuration call is recorded and the next call is due
CfgReturn(t, e) ==
    SetLocalOnly(t, [Local(t) EXCEPT
        !.prog = Tail(@),
        !.results = Append(@, [req |-> Head(prog[t]), ok |-> e = NoErr, val |-> Nil,
                               err |-> e])])

\* config.go AddConfigFile and addConfig. A rejected batch stores nothing; a
\* batch with a live ID of the store returns with the read lock of
\* brickConfigLock taken (lines 72-80); the loop of lines 82-106 stores live
\* by live, hangs at its first setBrickConfig when a read lock was left taken,
\* and returns an error, keeping what it stored, at a payload for a registered
\* type without factory; a batch stored whole resets brickConfigCheckOnce. The
\* deferred function of AddConfigFile appends the file to configs, whatever
\* addConfig returned.
AddConfigFile(t) ==
    /\ status[t] = "idle"
    /\ prog[t] # <<>>
    /\ Head(prog[t]).fn = "AddConfigFile"
    /\ LET configs == Head(prog[t]).arg
           st == [brickTypeIDMap2 |-> brickManager.brickTypeIDMap2,
                  brickFactories |-> brickManager.brickFactories,
                  liveIDConstraint |-> brickManager.liveIDConstraint,
                  brickConfigs |-> brickConfigs,
                  declaredLiveIDs |-> declaredLiveIDs,
                  failed |-> FALSE]
           all == livesOf(configs)
           firstFails == /\ all # <<>>
                         /\ ~all[1].meta.NoCheck
                         /\ all[1].live.Config # "nil"
                         /\ all[1].meta.TypeID \in DOMAIN st.brickTypeIDMap2
                         /\ all[1].meta.TypeID \notin st.brickFactories
           out == addDocuments(st, configs)
           file == FileOf(configs)
       IN  IF addConfigMalformed(st, configs)
           THEN /\ brickManager' = [brickManager EXCEPT !.configs = Append(@, file)]
                /\ CfgReturn(t, "malformed")
                /\ UNCHANGED <<brickConfigs, declaredLiveIDs>>
           ELSE IF addConfigDuplicate(st, configs)
           THEN /\ brickManager' = [brickManager EXCEPT !.configs = Append(@, file),
                                                        !.brickConfigRLocks = @ + 1]
                /\ CfgReturn(t, "duplicate")
                /\ UNCHANGED <<brickConfigs, declaredLiveIDs>>
           ELSE IF writerBlocks(brickManager) /\ all # <<>> /\ ~firstFails
           THEN /\ declaredLiveIDs' = IF all[1].live.LiveID # all[1].meta.TypeID
                                      THEN declaredLiveIDs \cup {all[1].live.LiveID}
                                      ELSE declaredLiveIDs
                /\ SetLocal(t, [Local(t) EXCEPT !.status = "blocked"])
                /\ UNCHANGED brickConfigs
           ELSE /\ brickConfigs' = out.brickConfigs
                /\ declaredLiveIDs' = out.declaredLiveIDs
                /\ brickManager' = [brickManager EXCEPT
                        !.configs = Append(@, file),
                        !.brickConfigCheckOnce = IF out.failed THEN @ ELSE FALSE,
                        !.ingests = IF out.failed THEN @ ELSE @ + 1]
                /\ CfgReturn(t, IF out.failed THEN "noParser" ELSE NoErr)
    /\ UNCHANGED <<instances, flight, heap, builds, nextRandom>>

\* README.md SetLiveIDConstraint
SetLiveIDConstraint(t) ==
    /\ status[t] = "idle"
    /\ prog[t] # <<>>
    /\ Head(prog[t]).fn = "SetLiveIDConstraint"
    /\ brickManager' = [brickManager EXCEPT !.liveIDConstraint = Head(prog[t]).arg]
    /\ CfgReturn(t, NoErr)
    /\ UNCHANGED shared

\* the liveID of the BrickBase of the receiver of the call that t is at: of
\* the struct the call before returned, or the empty string of new(Based)
receiverLiveID(t) ==
    IF Head(prog[t]).arg = onNew THEN strEmpty
    ELSE heap[results[t][Len(results[t])].val.id].liveID

\* the call that t is at has a receiver: it is new(Based), or the call before
\* it returned a *Based (after a panic the program does not get to the call)
hasReceiver(t) ==
    \/ Head(prog[t]).arg = onNew
    \/ /\ results[t] # <<>>
       /\ results[t][Len(results[t])].ok
       /\ results[t][Len(results[t])].req.fn \in {"Get", "GetOrCreate"}
       /\ results[t][Len(results[t])].req.typ = Typ("Based", 1)

\* config.go BrickBase.BrickLiveID: the liveID of the BrickBase, or a panic
\* when it is empty
BrickLiveID(t) ==
    /\ status[t] = "idle"
    /\ prog[t] # <<>>
    /\ Head(prog[t]).fn = "BrickLiveID"
    /\ IF ~hasReceiver(t)
       THEN SetLocal(t, [Local(t) EXCEPT !.prog = Tail(@)])
       ELSE SetLocal(t, [Local(t) EXCEPT
                !.prog = Tail(@),
                !.results = Append(@,
                    IF receiverLiveID(t) = strEmpty
                    THEN [req |-> Head(prog[t]), ok |-> FALSE, val |-> Nil,
                          err |-> "notInjected"]
                    ELSE [req |-> Head(prog[t]), ok |-> TRUE,
                          val |-> Val(Id(receiverLiveID(t), 0), Typ("", 0)),
                          err |-> NoErr])])
    /\ UNCHANGED shared

\* the payload that SaveBrickConfig writes
savedConfig == "saved"

\* config.go ConfigManager.saveBrickConfig, lines 414-430: the place of the
\* live ID under the type ID in the documents of a file, if there is one
foundInFile(file, typeID, brickLiveID) ==
    {pl \in UNION {{<<i, j>> : j \in DOMAIN file.content[i].Lives} : i \in DOMAIN file.content} :
        /\ file.content[pl[1]].MetaData.TypeID = typeID
        /\ file.content[pl[1]].Lives[pl[2]].LiveID = brickLiveID}

\* the first place of a set of places, in the order of the loops
firstPlace(places) ==
    CHOOSE pl \in places :
        \A q \in places : pl[1] < q[1] \/ (pl[1] = q[1] /\ pl[2] <= q[2])

\* config.go saveChanged: the file is written with the new payload at the place
savedFile(file, pl) ==
    [file EXCEPT !.content[pl[1]].Lives[pl[2]].Config = savedConfig]

RECURSIVE saveBrickConfig(_, _, _, _, _)
\* config.go BrickManager.saveBrickConfig, lines 297-308: the files are tried
\* from the i-th on; the first one that has the live ID under the type ID is
\* written and nil is returned; after the last file the error of the last
\* attempt is returned, which is nil (e = NoErr) when there was no attempt
saveBrickConfig(files, i, e, typeID, brickLiveID) ==
    IF i > Len(files) THEN [configs |-> files, err |-> e]
    ELSE IF foundInFile(files[i], typeID, brickLiveID) # {}
    THEN [configs |-> [files EXCEPT ![i] = savedFile(@, firstPlace(
                                        foundInFile(files[i], typeID, brickLiveID)))],
          err |-> NoErr]
    ELSE saveBrickConfig(files, i + 1, "configNotFound", typeID, brickLiveID)

\* config.go BrickBase.SaveBrickConfig: saveBrickConfig for the type ID of T
\* and the liveID of the BrickBase, whatever it is
SaveBrickConfig(t) ==
    /\ status[t] = "idle"
    /\ prog[t] # <<>>
    /\ Head(prog[t]).fn = "SaveBrickConfig"
    /\ IF ~hasReceiver(t)
       THEN /\ SetLocalOnly(t, [Local(t) EXCEPT !.prog = Tail(@)])
            /\ UNCHANGED brickManager
       ELSE LET out == saveBrickConfig(brickManager.configs, 1, NoErr,
                                       BrickTypes[Head(prog[t]).typ.base].tid,
                                       receiverLiveID(t))
            IN  /\ brickManager' = [brickManager EXCEPT !.configs = out.configs]
                /\ CfgReturn(t, out.err)
    /\ UNCHANGED shared

\* one goroutine makes the calls: no call waits for the build of another
CfgNext ==
    \E t \in Threads :
        \/ AddConfigFile(t)
        \/ SetLiveIDConstraint(t)
        \/ BrickLiveID(t)
        \/ SaveBrickConfig(t)
        \/ StartCall(t)
        \/ Enter(t)
        \/ DoCall(t)
        \/ Build(t)
        \/ Inject(t)
        \/ Unwind(t)

CfgSpec == CfgInit /\ [][CfgNext]_vars

(* ------------------------------------------------------------------ *)
(* Registration as a program of its own (register.go)                   *)
(* ------------------------------------------------------------------ *)

\* the longest sequence of registration calls
MaxRegs == 3

\* the registration calls that the type constraints of Register (Brick),
\* RegisterNewer (BrickNewer) and RegisterLives (BrickLives) allow
RegCalls ==
    {[fn |-> "Register", base |-> b] : b \in Bases}
    \cup {[fn |-> "RegisterNewer", base |-> b] : b \in {c \in Bases : BrickTypes[c].newer}}
    \cup {[fn |-> "RegisterLives", base |-> b] :
             b \in {c \in Bases : BrickTypes[c].newer /\ BrickTypes[c].lives # <<>>}}
    \cup {[fn |-> "RegisterLiveIDType", base |-> "Leaf", lvl |-> 1, liveID |-> l] :
             l \in {liveY, liveX}}

\* the types whose registrations are also tried three and more in a row
RegTriples == {"Conf", "Pool", "Deep", "Over", "Lame", "Host", "A", "Port", "Yard"}

RECURSIVE RegSeqs(_)
\* the sequences of n registration calls for these types
RegSeqs(n) ==
    IF n = 0 THEN {<<>>}
    ELSE {Append(p, r) : p \in RegSeqs(n - 1), r \in {c \in RegCalls : c.base \in RegTriples}}

\* one call, two calls, or up to MaxRegs calls in a row
RegPrograms ==
    {<<r>> : r \in RegCalls}
    \cup {<<r1, r2>> : r1 \in RegCalls, r2 \in RegCalls}
    \cup UNION {RegSeqs(n) : n \in 3 .. MaxRegs}

\* the program is the init() of a package: goroutine 1 makes the registration
\* calls one after the other, starting from an empty BrickManager
RegInit ==
    /\ brickManager = NewManager
    /\ instances = EmptyFn
    /\ brickConfigs = EmptyFn
    /\ declaredLiveIDs = {}
    /\ flight = EmptyFn
    /\ heap = EmptyFn
    /\ builds = EmptyFn
    /\ nextRandom = 0
    /\ stack = [t \in Threads |-> <<>>]
    /\ bld = [t \in Threads |-> <<>>]
    /\ prog \in {[t \in Threads |-> IF t = 1 THEN p ELSE <<>>] : p \in RegPrograms}
    /\ results = [t \in Threads |-> <<>>]
    /\ status = [t \in Threads |-> "idle"]
    /\ err = [t \in Threads |-> NoErr]

\* one registration call, whose panic the caller recovers
RegisterStep(t, fn) ==
    /\ prog[t] # <<>>
    /\ Head(prog[t]).fn = fn
    /\ LET after == registerCall([brickManager EXCEPT !.failed = FALSE], Head(prog[t]))
       IN  /\ brickManager' = after
           /\ declaredLiveIDs' = after.declaredLiveIDs
           /\ results' = [results EXCEPT ![t] =
                  Append(@, [req |-> Head(prog[t]), ok |-> ~after.failed, val |-> Nil,
                             err |-> IF after.failed THEN "notBrickField" ELSE NoErr])]
    /\ prog' = [prog EXCEPT ![t] = Tail(@)]
    /\ UNCHANGED <<instances, brickConfigs, flight, heap, builds, nextRandom, stack, bld,
                   status, err>>

\* register.go Register
Register(t) == RegisterStep(t, "Register")

\* register.go RegisterNewer
RegisterNewer(t) == RegisterStep(t, "RegisterNewer")

\* register.go RegisterLives
RegisterLives(t) == RegisterStep(t, "RegisterLives")

\* register.go RegisterLiveIDType
RegisterLiveIDType(t) == RegisterStep(t, "RegisterLiveIDType")

RegNext ==
    \E t \in Threads :
        \/ Register(t)
        \/ RegisterNewer(t)
        \/ RegisterLives(t)
        \/ RegisterLiveIDType(t)

RegSpec == RegInit /\ [][RegNext]_vars

(* ------------------------------------------------------------------ *)
(* Vocabulary of the properties                                         *)
(* ------------------------------------------------------------------ *)

\* the calls goroutine t makes: the finished ones, then the ones to come
Calls(t) == [i \in 1 .. Len(results[t]) |-> results[t][i].req] \o prog[t]

\* the call is a resolution, not a CloneConfig
IsResolution(r) == r.fn \in {"Get", "GetOrCreate"}

\* every goroutine makes the one call r
AllCall(r) == \A t \in Threads : Calls(t) = <<r>>

\* the calls are made one after the other, by goroutine 1
Sequential == \A t \in Threads \ {1} : Calls(t) = <<>>

TypeIDOf(base) == BrickTypes[base].tid

\* the live ID a top-level call asks for
LiveOf(r) == IF Len(r.arg) > 0 /\ r.arg[1] # strEmpty THEN r.arg[1] ELSE TypeIDOf(r.typ.base)

\* goroutine t is blocked in Group.Do on a call that goroutine u runs
WaitsFor(t, u) ==
    /\ status[t] = "run"
    /\ stack[t] # <<>>
    /\ Top(t).pc = "wait"
    /\ Top(t).live \in DOMAIN flight
    /\ flight[Top(t).live] = u

\* the struct types that the brick-tagged fields of a type name, for the fields
\* whose tag is a clone tag (TRUE \in clone) or is not (FALSE \in clone); an
\* interface field names the type registered for its live ID
FieldBases(base, clone) ==
    LET fields == BrickTypes[base].fields
        picked == {i \in DOMAIN fields : parseTag(fields[i].tag).isClone \in clone}
        known == {i \in picked : fields[i].kind = "iface"
                                 /\ parseTag(fields[i].tag).liveID \in DOMAIN Manager.liveIDTypeMap}
    IN  {fields[i].base : i \in {j \in picked : fields[j].kind = "struct"}}
        \cup {Manager.liveIDTypeMap[parseTag(fields[i].tag).liveID].base : i \in known}

RECURSIVE Closure(_, _)
Closure(S, clone) ==
    LET more == S \cup UNION {FieldBases(b, clone) : b \in S}
    IN  IF more = S THEN S ELSE Closure(more, clone)

\* the types a type depends on, directly or not
ReachedFrom(base, clone) == Closure(FieldBases(base, clone), clone)

\* the types that depend on themselves through fields that are not clones
SelfDependentBases == {b \in Bases : b \in ReachedFrom(b, {FALSE})}

\* the types that depend on themselves through clone fields
SelfCloningBases == {b \in Bases : b \in ReachedFrom(b, {TRUE})}

\* the types whose dependency graph has no cycle
AcyclicBases ==
    {b \in Bases : \A c \in {b} \cup ReachedFrom(b, BOOLEAN) : c \notin ReachedFrom(c, BOOLEAN)}

(* ------------------------------------------------------------------ *)
(* Properties                                                           *)
(* ------------------------------------------------------------------ *)

\* C1: when every goroutine makes the same GetOrCreate(T, x) call for a live
\* ID x that is not cached, the build function (factory or zero value, plus
\* injection) starts exactly once for x, whatever the interleaving.
C1_BuiltExactlyOnce ==
    \A r \in ConcRequests :
        (r.fn = "GetOrCreate" /\ AllCall(r)) =>
            /\ LiveOf(r) \in DOMAIN builds => builds[LiveOf(r)] = 1
            /\ (\A t \in Threads : Len(results[t]) = 1) => LiveOf(r) \in DOMAIN builds

\* C2 (state part): the goroutines that made the same call for a live ID that
\* was not built all end with the same instance, the cached one, or with the
\* same panic.
C2_SameOutcome ==
    \A r \in ConcRequests :
        AllCall(r) =>
            \A t, u \in Threads :
                (Len(results[t]) = 1 /\ Len(results[u]) = 1) =>
                    /\ results[t][1].ok = results[u][1].ok
                    /\ results[t][1].err = results[u][1].err
                    /\ results[t][1].ok =>
                           /\ results[t][1].val = results[u][1].val
                           /\ LiveOf(r) \in DOMAIN instances
                           /\ instances[LiveOf(r)].id = results[t][1].val.id

\* C2 (step part): an entry of the instance cache is never replaced
C2_EntryKept ==
    \A l \in DOMAIN instances : l \in DOMAIN instances' /\ instances'[l] = instances[l]

\* C2: all concurrent callers for the same live ID that was not built hold the
\* same instance, the one in the cache, or observe the same panic, and a cache
\* entry, once written, is never replaced.
C2_OneInstancePerLiveID == []C2_SameOutcome /\ [][C2_EntryKept]_vars

\* C3: a call that reaches, through fields that are not clones, a type still
\* under construction in its own call chain ends with the circular-dependency
\* panic: it never blocks on a build that its own chain is running, every
\* finished call on such a type ended with that panic, and no instance of such
\* a type is cached.
C3_CycleEndsInPanic ==
    /\ \A t \in Threads : ~WaitsFor(t, t)
    /\ \A t \in Threads : \A i \in DOMAIN results[t] :
           results[t][i].req.typ.base \in SelfDependentBases
               => results[t][i].err = "circular"
    /\ \A l \in DOMAIN instances :
           heap[instances[l].id].base \notin SelfDependentBases

\* C4: the cycle guard covers clone fields: in one call chain a type that
\* clones itself is never under construction twice, and every finished call on
\* such a type ended with the circular-dependency panic.
C4_CloneCycleEndsInPanic ==
    /\ \A t \in Threads : \A i, j \in DOMAIN stack[t] :
           (/\ i < j
            /\ stack[t][i].marked
            /\ stack[t][j].marked
            /\ stack[t][i].typ.base \in SelfCloningBases)
               => stack[t][i].typ # stack[t][j].typ
    /\ \A t \in Threads : \A i \in DOMAIN results[t] :
           results[t][i].req.typ.base \in SelfCloningBases
               => results[t][i].err = "circular"

\* C5: with the cycle A -> B -> A, when one goroutine resolves A and another
\* resolves B, the two are never blocked on each other's build, and each call
\* that ends, ends with the circular-dependency panic.
C5_NoMutualWait ==
    (/\ Calls(1) = <<Req("Get", "A", 1, <<>>)>>
     /\ Calls(2) = <<Req("Get", "B", 1, <<>>)>>) =>
        /\ ~(WaitsFor(1, 2) /\ WaitsFor(2, 1))
        /\ \A t \in {1, 2} : results[t] # <<>> => results[t][1].err = "circular"

\* C6: a resolution of a type whose dependency graph has no cycle never
\* panics with the circular-dependency error, whatever the other goroutines
\* resolve at the same time; the types marked under construction in a context
\* are those of the frames of that call chain that passed the guard, and none
\* stays marked once its call has returned or panicked.
C6_NoFalseCycle ==
    /\ \A t \in Threads : \A i \in DOMAIN results[t] :
           results[t][i].err = "circular"
               => results[t][i].req.typ.base \notin AcyclicBases
    /\ \A t \in Threads :
           (status[t] = "panic" /\ err[t] = "circular")
               => Head(prog[t]).typ.base \notin AcyclicBases
    /\ \A t \in Threads : \A c \in DOMAIN bld[t] :
           bld[t][c] = {stack[t][i].typ :
                           i \in {j \in DOMAIN stack[t] :
                                     stack[t][j].marked /\ stack[t][j].ctx = c}}
    /\ \A t \in Threads : stack[t] = <<>> => bld[t] = <<>>

\* C6 happens: every goroutine has resolved Root, whose Leaf is named by three
\* fields and reached again through Mid, at the same time as the others
C6_Witness ==
    \A t \in Threads :
        /\ Len(results[t]) = 1
        /\ results[t][1].req = Req("Get", "Root", 1, <<>>)
        /\ results[t][1].ok
        /\ \A f \in DOMAIN heap[results[t][1].val.id].flds :
               heap[results[t][1].val.id].flds[f] # Nil

\* the request for a live ID that is neither the type's default one nor declared
UnknownRequest(r) ==
    /\ IsResolution(r)
    /\ LiveOf(r) # TypeIDOf(r.typ.base)
    /\ LiveOf(r) \notin declaredLiveIDs

\* the requested live ID is the type ID of another registered type
Collides(r) ==
    /\ IsResolution(r)
    /\ LiveOf(r) # TypeIDOf(r.typ.base)
    /\ LiveOf(r) \in DOMAIN brickManager.brickTypeIDMap2

\* what C7 says of the first call, and of the call after it, when the first
\* call asks for an unknown live ID and the calls are made one after the other
C7_Outcome(first, later) ==
    /\ (first.req.fn = "Get" /\ Len(results[1]) = 1) =>
           /\ ~first.ok
           /\ instances = EmptyFn
           /\ brickConfigs = Manager.brickConfigs
    /\ first.req.fn = "GetOrCreate" =>
           /\ first.ok
           /\ first.val.id.live = LiveOf(first.req)
           /\ first.val.id.live # TypeIDOf(first.req.typ.base)
           /\ LiveOf(first.req) \in DOMAIN instances
           /\ instances[LiveOf(first.req)].id = first.val.id
           /\ \A i \in DOMAIN later :
                  (/\ later[i].req.fn = "Get"
                   /\ later[i].req.typ = first.req.typ
                   /\ later[i].req.arg = first.req.arg)
                      => later[i].ok /\ later[i].val = first.val

ConfigLives ==
    UNION {{ConfigFiles[i].Lives[j].LiveID : j \in DOMAIN ConfigFiles[i].Lives} :
              i \in DOMAIN ConfigFiles}

\* the live IDs named in the brick tags of the fields of the registered types
TagLives ==
    UNION {{parseTag(BrickTypes[b].fields[i].tag).liveID : i \in DOMAIN BrickTypes[b].fields} :
              b \in {typ.base : typ \in DOMAIN Manager.brickTypeIDMap1}} \ {strEmpty}

\* the live IDs registered with RegisterLives and RegisterLiveIDType
RegisteredLives ==
    UNION {IF Registrations[i].fn = "RegisterLiveIDType" THEN {Registrations[i].liveID}
           ELSE IF Registrations[i].fn = "RegisterLives"
           THEN LET lives == BrickTypes[Registrations[i].base].lives
                IN  UNION {{lives[j].LiveID}
                           \cup {lives[j].RelyLives[f] : f \in DOMAIN lives[j].RelyLives} :
                              j \in DOMAIN lives}
           ELSE {} : i \in DOMAIN Registrations}

KnownLives == ConfigLives \cup TagLives \cup RegisteredLives

\* C8: Get never panics over an unknown live ID when the call, and the
\* dependencies it resolves, ask for default live IDs or for live IDs that a
\* configuration document, a brick tag or a registration names; and Get on a
\* live ID that was never built and is none of these panics.
C8_PanicsExactlyWhenUnknown ==
    \A t \in Threads : \A i \in DOMAIN results[t] :
        LET res == results[t][i]
            live == LiveOf(res.req)
            default == live = TypeIDOf(res.req.typ.base)
        IN  res.req.fn = "Get" =>
                /\ (default \/ live \in KnownLives) => res.err # "undeclared"
                /\ (Sequential /\ i = 1 /\ ~default /\ live \notin KnownLives) => ~res.ok

\* the ways to ask for the default instance of a type: no live ID, the empty
\* one, or the type ID
DefaultArgs(base) == {<<>>, <<strEmpty>>, <<TypeIDOf(base)>>}

\* C9: for a registered type with type ID t, a call without live ID, with the
\* empty live ID and with t all resolve the live ID t; made one after the
\* other, two such calls of Get, or of GetOrCreate, end alike, and two such
\* calls that succeed for a pointer type return the same instance, the cached
\* one; a field with the empty tag and a field tagged t hold the same instance.
C9_DefaultLiveID ==
    /\ \A base \in Bases : \A arg \in DefaultArgs(base) :
           targetLiveID(arg, TypeIDOf(base)) = TypeIDOf(base)
    /\ \A t \in Threads : \A i \in DOMAIN results[t] :
           (/\ IsResolution(results[t][i].req)
            /\ results[t][i].ok
            /\ results[t][i].req.arg \in DefaultArgs(results[t][i].req.typ.base))
               => results[t][i].val.id.live = TypeIDOf(results[t][i].req.typ.base)
    /\ (/\ Sequential
        /\ Len(results[1]) = 2
        /\ IsResolution(results[1][1].req)
        /\ IsResolution(results[1][2].req)
        /\ results[1][1].req.typ = results[1][2].req.typ
        /\ results[1][1].req.arg \in DefaultArgs(results[1][1].req.typ.base)
        /\ results[1][2].req.arg \in DefaultArgs(results[1][2].req.typ.base)) =>
           /\ results[1][1].req.fn = results[1][2].req.fn =>
                  /\ results[1][1].ok = results[1][2].ok
                  /\ results[1][1].err = results[1][2].err
           /\ (results[1][1].ok /\ results[1][2].ok /\ results[1][1].req.typ.lvl >= 1) =>
                  /\ results[1][1].val = results[1][2].val
                  /\ instances[TypeIDOf(results[1][1].req.typ.base)].id = results[1][1].val.id
    /\ Sequential =>
           \A l \in DOMAIN instances :
               heap[instances[l].id].base = "Root" =>
                   /\ heap[instances[l].id].flds.L1 = heap[instances[l].id].flds.L2
                   /\ heap[instances[l].id].flds.L1.id.live = tidLeaf

\* C9 happens: Get without live ID and then GetOrCreate with the type ID
\* returned the one Root, whose L1 and L2 are the one default Leaf
C9_Witness ==
    /\ Sequential
    /\ Len(results[1]) = 2
    /\ results[1][1].req = Req("Get", "Root", 1, <<>>)
    /\ results[1][2].req = Req("GetOrCreate", "Root", 1, <<tidRoot>>)
    /\ results[1][1].ok
    /\ results[1][2].val = results[1][1].val
    /\ heap[results[1][1].val.id].flds.L2 = instances[tidLeaf]

\* every brick-tagged field of the struct id, and of the structs its fields
\* refer to (n levels down), is set
RECURSIVE FullyInjected(_, _)
FullyInjected(id, n) ==
    \A f \in DOMAIN heap[id].flds :
        /\ heap[id].flds[f] # Nil
        /\ n > 0 => FullyInjected(heap[id].flds[f].id, n - 1)

\* C10: after a successful Get or GetOrCreate every brick-tagged field of the
\* returned instance, and of every instance injected into it, is set: none is
\* left at its zero value.
C10_EveryTaggedFieldSet ==
    \A t \in Threads : \A i \in DOMAIN results[t] :
        (IsResolution(results[t][i].req) /\ results[t][i].ok)
            => FullyInjected(results[t][i].val.id, MaxDepth)

\* C11 (state part): in calls made one after the other, every pointer that a
\* call returned, and every pointer field of a struct, refers to the struct
\* that the cache holds under its live ID
C11_Aliased ==
    Sequential =>
        /\ \A i \in DOMAIN results[1] :
               (results[1][i].ok /\ results[1][i].val.typ.lvl >= 1) =>
                   /\ results[1][i].val.id.live \in DOMAIN instances
                   /\ instances[results[1][i].val.id.live].id = results[1][i].val.id
        /\ \A id \in DOMAIN heap : \A f \in DOMAIN heap[id].flds :
               (heap[id].flds[f] # Nil /\ heap[id].flds[f].typ.lvl >= 1) =>
                   /\ heap[id].flds[f].id.live \in DOMAIN instances
                   /\ instances[heap[id].flds[f].id.live].id = heap[id].flds[f].id

\* C11 (step part): in calls made one after the other, a cache entry is never
\* replaced or removed, and no build starts for a live ID that is cached
C11_KeptAndNotRebuilt ==
    Sequential =>
        \A l \in DOMAIN instances :
            /\ l \in DOMAIN instances'
            /\ instances'[l] = instances[l]
            /\ builds'[l] = builds[l]

\* C11: in a sequential sequence of resolutions a live ID is built at most
\* once, its cache entry is never replaced or removed, and every pointer-shaped
\* resolution of it is the one cached instance, also as the default-tagged
\* field of different owners.
C11_OneSharedInstance == []C11_Aliased /\ [][C11_KeptAndNotRebuilt]_vars

\* C11 happens: Root and then Mid were resolved, and the Leaf field of Mid is
\* the struct that the fields L1 and M.Leaf of Root refer to
C11_Witness ==
    /\ Sequential
    /\ Len(results[1]) = 2
    /\ results[1][1].req = Req("Get", "Root", 1, <<>>)
    /\ results[1][2].req = Req("Get", "Mid", 1, <<>>)
    /\ results[1][1].ok
    /\ results[1][2].ok
    /\ heap[results[1][2].val.id].flds.Leaf = heap[results[1][1].val.id].flds.L1
    /\ heap[results[1][1].val.id].flds.M = results[1][2].val

\* the live ID that a call of getBrickInstance, top-level or made by the
\* injector, is for
FrameLive(fr) ==
    IF Len(fr.arg) > 0 /\ fr.arg[1] # strEmpty THEN fr.arg[1] ELSE TypeIDOf(fr.typ.base)

\* a call of getBrickInstance for a registered type and a live ID that is not
\* the type's type ID but the type ID of a registered type
FrameCollides(fr) ==
    /\ resolveType(fr.typ).how # "unregistered"
    /\ FrameLive(fr) # TypeIDOf(fr.typ.base)
    /\ \E typ \in DOMAIN brickManager.brickTypeIDMap1 :
           brickManager.brickTypeIDMap1[typ] = FrameLive(fr)

\* C12 (step part): the first step of such a call is the panic; nothing is
\* read from or written to the cache, nothing is built
C12_PanicsFirst ==
    \A t \in Threads :
        (/\ Running(t, "enter")
         /\ FrameCollides(Top(t))
         /\ <<stack[t], status[t]>> # <<stack'[t], status'[t]>>)
            => /\ status'[t] = "panic"
               /\ err'[t] = "collision"
               /\ Len(stack'[t]) = Len(stack[t])
               /\ UNCHANGED <<instances, builds, heap, flight>>

\* C12 (state part): an instance cached under the type ID of a registered type
\* is an instance of that type, and no call for a colliding live ID returned
C12_NoForeignEntry ==
    /\ \A l \in DOMAIN instances : \A typ \in DOMAIN brickManager.brickTypeIDMap1 :
           brickManager.brickTypeIDMap1[typ] = l => heap[instances[l].id].base = typ.base
    /\ \A t \in Threads : \A i \in DOMAIN results[t] :
           Collides(results[t][i].req) =>
               ~results[t][i].ok /\ results[t][i].err = "collision"

\* C12: a resolution, top-level or injected, whose target live ID is not the
\* requested type's type ID but is the type ID of a registered type panics
\* before any cache lookup or build, so no instance is ever cached under the
\* type ID of a type other than its own.
C12_CollisionPanics == []C12_NoForeignEntry /\ [][C12_PanicsFirst]_vars

\* C12 happens: after Mid was resolved and cached under its type ID, the
\* injector asks for a Leaf under that live ID for the field Bad of a Clash,
\* and the call panics although the cache has an entry for the live ID
C12_Witness ==
    /\ status[1] = "panic"
    /\ err[1] = "collision"
    /\ Len(stack[1]) = 2
    /\ stack[1][1].typ.base = "Clash"
    /\ Top(1).typ.base = "Leaf"
    /\ FrameLive(Top(1)) = tidMid
    /\ tidMid \in DOMAIN instances
    /\ heap[instances[tidMid].id].base = "Mid"

\* the configuration store has an entry for the requested live ID whose type
\* ID is not the type ID of the requested type
MismatchRequest(r) ==
    /\ IsResolution(r)
    /\ LiveOf(r) \in DOMAIN brickConfigs
    /\ brickConfigs[LiveOf(r)].TypeID # TypeIDOf(r.typ.base)

\* the first call of goroutine 1, made with an empty cache, ended in the panic
\* of the configuration check, and when it ended nothing is cached
\* or was built under its live ID
MismatchOutcome(first) ==
    /\ ~first.ok
    /\ first.err = "configTypeID"
    /\ (Len(results[1]) = 1 /\ status[1] = "idle") =>
           /\ LiveOf(first.req) \notin DOMAIN instances
           /\ LiveOf(first.req) \notin DOMAIN builds

\* C13 as the spec words it: with no instance cached under the target live ID
\* and a configuration entry for it whose type ID is not the requested type's,
\* resolution panics with a mismatch error, the factory is not invoked and no
\* instance is cached under the live ID.
C13_MismatchPanics ==
    (/\ Sequential
     /\ results[1] # <<>>
     /\ MismatchRequest(results[1][1].req))
        => MismatchOutcome(results[1][1])

\* C13, amended (state part): the same, for a live ID that is not the type ID
\* of another registered type; for such a live ID the panic is the one of the
\* collision check, which comes first
C13_MismatchPanicsNoCollision ==
    (/\ Sequential
     /\ results[1] # <<>>
     /\ MismatchRequest(results[1][1].req)
     /\ ~Collides(results[1][1].req))
        => MismatchOutcome(results[1][1])

\* C13, amended (step part): a build function, of a top-level or an injected
\* call, that finds a configuration entry for another type panics at once;
\* no struct is made, no factory runs, the cache is as it was
C13_BuildPanics ==
    \A t \in Threads :
        (/\ Running(t, "build")
         /\ Top(t).live \in DOMAIN brickConfigs
         /\ brickConfigs[Top(t).live].LiveID = Top(t).live
         /\ brickConfigs[Top(t).live].TypeID # TypeIDOf(Top(t).typ.base)
         /\ <<stack[t], status[t]>> # <<stack'[t], status'[t]>>)
            => /\ status'[t] = "panic"
               /\ err'[t] = "configTypeID"
               /\ UNCHANGED <<instances, builds, heap>>

\* C13, amended: a resolution that reaches the build function with no instance
\* cached under its live ID and a configuration entry of another type ID
\* panics with the mismatch error, no factory runs and nothing is cached.
C13_MismatchAtBuild == []C13_MismatchPanicsNoCollision /\ [][C13_BuildPanics]_vars

\* C13 happens: Get[*Leaf]("c") met the configuration entry of a Conf and
\* panicked, and nothing is cached under "c"
C13_Witness ==
    /\ Sequential
    /\ Len(results[1]) = 1
    /\ results[1][1].req = Req("Get", "Leaf", 1, <<liveC>>)
    /\ results[1][1].err = "configTypeID"
    /\ status[1] = "idle"
    /\ liveC \notin DOMAIN instances

\* the i-th call of goroutine t was a CloneConfig that returned a live ID
ClonedAt(t, i) ==
    /\ i \in DOMAIN results[t]
    /\ results[t][i].req.fn = "CloneConfig"
    /\ results[t][i].ok

\* the call after it was a resolution, under the returned live ID, of the type
\* that the copied configuration entry is for
ResolvedCloneAt(t, i) ==
    /\ ClonedAt(t, i)
    /\ i + 1 \in DOMAIN results[t]
    /\ results[t][i + 1].req.fn \in {"Get", "GetOrCreate"}
    /\ results[t][i + 1].req.arg = <<results[t][i].val.id.live>>
    /\ TypeIDOf(results[t][i + 1].req.typ.base) = brickConfigs[LiveOf(results[t][i].req)].TypeID

\* C14: CloneConfig on a source live ID A that has a configuration returns a
\* live ID B that is not A (and not the live ID of any other clone), and the
\* resolution under B that follows yields a struct that was built for B, holds
\* the configured values of A, and is not the struct of A or of any other live
\* ID, so that writing to the one never changes the other.
C14_CloneConfigSeparate ==
    \A t \in Threads : \A i \in DOMAIN results[t] :
        LET A == LiveOf(results[t][i].req)
            B == results[t][i].val.id.live
        IN  /\ ClonedAt(t, i) =>
                /\ B # A
                /\ \A u \in Threads : \A j \in DOMAIN results[u] :
                       (ClonedAt(u, j) /\ <<u, j>> # <<t, i>>) => results[u][j].val.id.live # B
                /\ brickConfigs[B] = [brickConfigs[A] EXCEPT !.LiveID = B]
            /\ ResolvedCloneAt(t, i) =>
                /\ results[t][i + 1].ok
                /\ results[t][i + 1].val.id.live = B
                /\ heap[results[t][i + 1].val.id].live = B
                /\ heap[results[t][i + 1].val.id].data = brickConfigs[A].Config
                /\ builds[B] = 1
                /\ \A l \in DOMAIN instances \ {B} :
                       instances[l].id # results[t][i + 1].val.id

\* C14 happens: Conf was resolved, its configuration cloned, and the clone
\* resolved; two structs with the same configured value exist
C14_Witness ==
    /\ Len(results[1]) = 3
    /\ results[1][1].req = Req("Get", "Conf", 1, <<>>)
    /\ results[1][1].ok
    /\ ResolvedCloneAt(1, 2)
    /\ results[1][3].ok
    /\ results[1][3].val.id # results[1][1].val.id
    /\ heap[results[1][3].val.id].data = heap[results[1][1].val.id].data
    /\ heap[results[1][1].val.id].data = "v1"

\* the getBrickInstance call at depth k of goroutine t was made by cloneBrick
\* for a field with a clone tag: such a call has a context of its own
IsCloneFrame(t, k) == k \in 2 .. Len(stack[t]) /\ stack[t][k].ownctx

\* the live ID that the clone tag of the field being injected at depth k names
CloneSource(t, k) ==
    LET f == BrickTypes[heap[stack[t][k].inst].base].fields[stack[t][k].fi]
        p == parseTag(effectiveTag(heap[stack[t][k].inst].base, stack[t][k].live, f))
    IN  IF p.liveID # strEmpty THEN p.liveID ELSE TypeIDOf(f.base)

\* the configuration entry of the source, if there is one, is stored under
\* the new live ID
CloneHasConfig(source, newLiveID) ==
    source \in DOMAIN brickConfigs =>
        /\ newLiveID \in DOMAIN brickConfigs
        /\ brickConfigs[newLiveID] = [brickConfigs[source] EXCEPT !.LiveID = newLiveID]

\* C15 (configuration part): every clone stores the configuration entry of its
\* source under the new live ID before anything is resolved under it
C15_CloneConfigured ==
    /\ \A t \in Threads : \A i \in DOMAIN results[t] :
           ClonedAt(t, i) =>
               CloneHasConfig(LiveOf(results[t][i].req), results[t][i].val.id.live)
    /\ \A t \in Threads : \A k \in DOMAIN stack[t] :
           IsCloneFrame(t, k) => CloneHasConfig(CloneSource(t, k - 1), FrameLive(stack[t][k]))

\* C15: every clone, made by CloneConfig or for a field with a clone tag,
\* stores the configuration entry of its source under the new live ID and
\* adds the new live ID to the declared live IDs before anything is resolved
\* under it.
C15_CloneDeclared ==
    /\ C15_CloneConfigured
    /\ \A t \in Threads : \A i \in DOMAIN results[t] :
           ClonedAt(t, i) => results[t][i].val.id.live \in declaredLiveIDs
    /\ \A t \in Threads : \A k \in DOMAIN stack[t] :
           IsCloneFrame(t, k) => FrameLive(stack[t][k]) \in declaredLiveIDs

\* the getBrickInstance call at depth k of goroutine t was made by injectBrick
\* for a field whose tag is `random`
IsRandomFrame(t, k) ==
    /\ k \in 2 .. Len(stack[t])
    /\ stack[t][k - 1].pc = "call"
    /\ LET owner == stack[t][k - 1]
           f == BrickTypes[heap[owner.inst].base].fields[owner.fi]
       IN  /\ f.kind = "struct"
           /\ parseTag(effectiveTag(heap[owner.inst].base, owner.live, f)).isRandomLiveID

\* the fields with a `random` tag that hold an instance: <<owner struct, field>>
RandomHolders ==
    UNION {{<<id, BrickTypes[heap[id].base].fields[i].name>> :
               i \in {j \in DOMAIN BrickTypes[heap[id].base].fields :
                         /\ BrickTypes[heap[id].base].fields[j].tag = strRandom
                         /\ heap[id].flds[BrickTypes[heap[id].base].fields[j].name] # Nil}} :
           id \in DOMAIN heap}

Overrides(base, liveID, name) ==
    {BrickTypes[base].lives[i].RelyLives[name] :
        i \in {j \in DOMAIN BrickTypes[base].lives :
                  /\ BrickTypes[base].lives[j].LiveID = liveID
                  /\ name \in DOMAIN BrickTypes[base].lives[j].RelyLives}}

\* the live ID a struct field with a plain tag (no random, no clone) is
\* resolved under, in the instance of base built under liveID
ExpectedLive(base, liveID, f) ==
    LET over == Overrides(base, liveID, f.name)
        tag == IF over # {} THEN CHOOSE d \in over : TRUE ELSE f.tag
    IN  IF tag = strEmpty THEN TypeIDOf(f.base) ELSE tag

\* the fields with a plain tag
PlainFields(base) ==
    {i \in DOMAIN BrickTypes[base].fields :
        /\ BrickTypes[base].fields[i].kind = "struct"
        /\ BrickTypes[base].fields[i].exported
        /\ BrickTypes[base].fields[i].tag \notin {strRandom, strClone}}

\* C17: in the instance built under live ID L a field named in the type's
\* live-override entry for L holds the instance of the override descriptor;
\* the other fields, and the fields of instances built under other live IDs,
\* hold the instance of their static tag. So the instance of Over built under
\* the overridden live ID does not share the T1 of the default instance.
C17_OverrideForItsLiveOnly ==
    /\ \A id \in DOMAIN heap : \A i \in PlainFields(heap[id].base) :
           LET f == BrickTypes[heap[id].base].fields[i]
           IN  heap[id].flds[f.name] # Nil =>
                   heap[id].flds[f.name].id.live = ExpectedLive(heap[id].base, heap[id].live, f)
    /\ \A a \in DOMAIN heap : \A b \in DOMAIN heap :
           (/\ heap[a].base = "Over" /\ heap[a].live = liveV
            /\ heap[b].base = "Over" /\ heap[b].live # liveV
            /\ heap[a].flds.T1 # Nil /\ heap[b].flds.T1 # Nil)
               => heap[a].flds.T1.id # heap[b].flds.T1.id

\* C17 happens: Over was built under its default live ID and under the live
\* ID with the override; the T1 fields hold different Leaf structs, the T2
\* fields hold the same
C17_Witness ==
    /\ Len(results[1]) = 2
    /\ results[1][1].req = Req("Get", "Over", 1, <<>>)
    /\ results[1][2].req = Req("Get", "Over", 1, <<liveV>>)
    /\ results[1][1].ok
    /\ results[1][2].ok
    /\ heap[results[1][1].val.id].flds.T1.id.live = tidLeaf
    /\ heap[results[1][2].val.id].flds.T1.id.live = liveW
    /\ heap[results[1][1].val.id].flds.T2 = heap[results[1][2].val.id].flds.T2
    /\ heap[results[1][2].val.id].flds.T2.id.live = tidLeaf

(* ------------------------------------------------------------------ *)
(* Properties of registration, checked under RegSpec                    *)
(* ------------------------------------------------------------------ *)

\* the type registry: the two type maps and the factory table
Registry(st) == <<st.brickTypeIDMap1, st.brickTypeIDMap2, st.brickFactories>>

\* the RegisterBrickParam values that a registration, direct or transitive,
\* may pass to register for a type
RegisterParams ==
    {[TypeID |-> BrickTypes[b].tid, ReflectType |-> Typ(b, lvl), Lives |-> lives,
      BrickFactory |-> fac] :
        b \in Bases, lvl \in {0, 1}, fac \in BOOLEAN, lives \in {<<>>} \cup {BrickTypes[c].lives : c \in Bases}}

\* the reflect.Type that a call of Register, RegisterNewer or RegisterLives binds
BoundShape(r) ==
    IF r.fn = "RegisterLives" THEN Typ(r.base, 0)
    ELSE Typ(r.base, IF BrickTypes[r.base].recv = "val" THEN 0 ELSE 1)

\* goroutine 1 makes the registration call r in this step
RegistersNow(r) ==
    /\ prog[1] # <<>>
    /\ Head(prog[1]) = r
    /\ prog'[1] = Tail(prog[1])
    /\ r.fn \in {"Register", "RegisterNewer", "RegisterLives"}

\* C18 (the function): register, given a reflect.Type that is bound, returns
\* the BrickManager it was given: maps, factory table, walked types, no panic
C18_RegisterBoundIsNoOp ==
    \A param \in RegisterParams :
        param.ReflectType \in DOMAIN brickManager.brickTypeIDMap1 =>
            LET st == [brickManager EXCEPT !.failed = FALSE]
                after == register(st, param)
            IN  /\ Registry(after) = Registry(st)
                /\ after.walked = st.walked
                /\ ~after.failed

\* C18 (the calls): Register, RegisterNewer or RegisterLives for a type whose
\* reflect.Type is bound leaves the registry as it was, walks nothing and
\* ends without a panic
C18_CallOnBoundIsNoOp ==
    \A r \in RegCalls :
        (RegistersNow(r) /\ BoundShape(r) \in DOMAIN brickManager.brickTypeIDMap1) =>
            /\ Registry(brickManager') = Registry(brickManager)
            /\ brickManager'.walked = brickManager.walked
            /\ results'[1][Len(results'[1])].ok

TypeIDOfTyp(typ) == BrickTypes[typ.base].tid

\* the reflect.Type that was bound first under a type ID: register walks the
\* fields of a type right after it bound it
FirstBound(tid) ==
    brickManager.walked[CHOOSE i \in DOMAIN brickManager.walked :
        /\ TypeIDOfTyp(brickManager.walked[i]) = tid
        /\ \A j \in 1 .. i - 1 : TypeIDOfTyp(brickManager.walked[j]) # tid]

\* C19: after any sequence of registrations a type ID is bound to the type
\* that was registered under it first, as T by value and later *T as the type
\* of a dependency field, and the two maps agree: each is the inverse of the
\* other.
C19_FirstBindingKept ==
    /\ \A tid \in DOMAIN brickManager.brickTypeIDMap2 :
           brickManager.brickTypeIDMap2[tid] = FirstBound(tid)
    /\ \A typ \in DOMAIN brickManager.brickTypeIDMap1 :
           brickManager.brickTypeIDMap2[brickManager.brickTypeIDMap1[typ]] = typ
    /\ \A tid \in DOMAIN brickManager.brickTypeIDMap2 :
           brickManager.brickTypeIDMap1[brickManager.brickTypeIDMap2[tid]] = tid

\* the struct types named by the brick-tagged struct-typed fields of a type
StructFieldBases(base) ==
    {BrickTypes[base].fields[i].base :
        i \in {j \in DOMAIN BrickTypes[base].fields : BrickTypes[base].fields[j].kind = "struct"}}

RECURSIVE RegClosure(_)
RegClosure(S) ==
    LET more == S \cup UNION {StructFieldBases(b) : b \in S}
    IN  IF more = S THEN S ELSE RegClosure(more)

\* the types reachable from a type through such fields
RegReach(base) == RegClosure(StructFieldBases(base))

\* register went through the fields of each reflect.Type at most once
WalkedOnce ==
    \A i \in DOMAIN brickManager.walked : \A j \in DOMAIN brickManager.walked :
        brickManager.walked[i] = brickManager.walked[j] => i = j

C20_ReachableBound ==
    \A r \in RegCalls :
        (/\ RegistersNow(r)
         /\ \A i \in DOMAIN results[1] : results[1][i].ok
         /\ results'[1][Len(results'[1])].ok)
            => \A b \in RegReach(r.base) :
                   /\ Typ(b, 1) \in DOMAIN brickManager'.brickTypeIDMap1
                   /\ (/\ BrickTypes[b].newer
                       /\ Typ(b, 1) \notin DOMAIN brickManager.brickTypeIDMap1
                       /\ Typ(b, 1) # BoundShape(r))
                          => BrickTypes[b].tid \in brickManager'.brickFactories

TaggedFieldNames(base) ==
    {BrickTypes[base].fields[i].name : i \in DOMAIN BrickTypes[base].fields}

\* some live-override entry of the type names a field without a brick tag
NamesUntaggedField(base) ==
    \E i \in DOMAIN BrickTypes[base].lives :
        \E f \in DOMAIN BrickTypes[base].lives[i].RelyLives :
            f \notin TaggedFieldNames(base)

\* C21: the registration of a type that is not registered yet, with its
\* live-override map, panics if and only if an override entry names a field
\* that carries no brick tag on the type; an override that names a
\* brick-tagged field of any declared type (struct, pointer or interface) is
\* accepted.
C21_PanicsIffUntaggedField ==
    (/\ results[1] # <<>>
     /\ results[1][1].req.fn = "RegisterLives")
        => (~results[1][1].ok <=> NamesUntaggedField(results[1][1].req.base))

\* goroutine t is in injectBrick at an exported interface-typed field
AtInterfaceField(t) ==
    /\ Running(t, "inject")
    /\ Top(t).fi <= Len(BrickTypes[heap[Top(t).inst].base].fields)
    /\ BrickTypes[heap[Top(t).inst].base].fields[Top(t).fi].kind = "iface"
    /\ BrickTypes[heap[Top(t).inst].base].fields[Top(t).fi].exported

\* the field goroutine t is at, and the descriptor parsed from its tag
FieldAt(t) == BrickTypes[heap[Top(t).inst].base].fields[Top(t).fi]

DescriptorAt(t) == parseTag(effectiveTag(heap[Top(t).inst].base, Top(t).live, FieldAt(t)))

\* the live ID the descriptor resolves to: the type ID when none is given
DescriptorLive(p) == IF p.liveID = strEmpty THEN p.typeID ELSE p.liveID

\* goroutine t takes a step of its own
Moves(t) == stack'[t] # stack[t] \/ status'[t] # status[t]

\* the first of the four rules that applies to live ID L, 0 when none does
FirstRule(p, L) ==
    IF L \in DOMAIN instances THEN 1
    ELSE IF L \in DOMAIN brickConfigs THEN 2
    ELSE IF p.typeID # strEmpty THEN 3
    ELSE IF L \in DOMAIN brickManager.liveIDTypeMap THEN 4
    ELSE 0

\* the type ID that rule 2 or rule 3 names
RuleTypeID(rule, p, L) == IF rule = 2 THEN brickConfigs[L].TypeID ELSE p.typeID

\* the concrete type the rule names
RuleType(rule, p, L) ==
    CASE rule = 1 -> instances[L].typ
      [] rule \in {2, 3} -> brickManager.brickTypeIDMap2[RuleTypeID(rule, p, L)]
      [] rule = 4 -> brickManager.liveIDTypeMap[L]

\* rule 2 or rule 3 applies but names no usable type: the type ID is not
\* registered, or the entry of the store disagrees with the tag
RuleFails(rule, p, L) ==
    /\ rule \in {2, 3}
    /\ \/ RuleTypeID(rule, p, L) \notin DOMAIN brickManager.brickTypeIDMap2
       \/ rule = 2 /\ p.typeID # strEmpty /\ brickConfigs[L].TypeID # p.typeID

\* the step of t calls getBrickInstance for typ under live ID arg
CallsFor(t, typ, arg) ==
    /\ Len(stack'[t]) = Len(stack[t]) + 1
    /\ stack'[t][Len(stack'[t])].typ = typ
    /\ stack'[t][Len(stack'[t])].arg = arg
    /\ stack'[t][Len(stack'[t])].pc = "enter"

\* the step of t at an interface field follows the first applicable rule
FollowsFirstRule(t) ==
    LET p == DescriptorAt(t)
        L == DescriptorLive(p)
        rule == FirstRule(p, L)
        f == FieldAt(t)
        fresh == <<RandomLiveID(nextRandom + 1)>>
    IN  \/ status'[t] = "overflow"
        \/ rule = 0 /\ status'[t] = "panic" /\ heap' = heap
        \/ RuleFails(rule, p, L) /\ status'[t] = "panic" /\ heap' = heap
        \/ /\ rule = 1
           /\ ~p.isClone
           /\ status'[t] = "run"
           /\ Len(stack'[t]) = Len(stack[t])
           /\ heap'[Top(t).inst].flds[f.name].id = instances[L].id
        \/ /\ rule # 0
           /\ ~RuleFails(rule, p, L)
           /\ rule = 1 => p.isClone
           /\ status'[t] = "run"
           /\ IF p.isClone
              THEN /\ CallsFor(t, RuleType(rule, p, L), fresh)
                   /\ fresh[1] # L
                   /\ fresh[1] \notin DOMAIN instances
                   /\ stack'[t][Len(stack'[t])].ownctx
              ELSE CallsFor(t, RuleType(rule, p, L), <<L>>)

\* C22: an interface-typed brick field whose descriptor resolves to live ID L
\* is injected by the first rule that applies, in the order (1) the instance
\* cached under L, (2) the type of the configuration entry of L, (3) the type
\* ID of the tag, (4) the type RegisterLiveIDType associated with L; the
\* injection panics when no rule applies; with the clone flag the chosen type
\* is resolved under a fresh live ID instead of L.
C22_FirstApplicableRule ==
    [][\A t \in Threads :
          (/\ AtInterfaceField(t)
           /\ Moves(t)
           /\ ~DescriptorAt(t).isRandomLiveID
           /\ DescriptorLive(DescriptorAt(t)) # strEmpty) => FollowsFirstRule(t)]_vars

\* the fields of a built Hub, and the struct each refers to
HubField(id, name) == heap[id].flds[name]

\* C22 happens: a Hub was injected whole: Cfg by the configuration entry of
\* "c", Tid by the type ID of its tag, Cl as a clone of "c" under another live
\* ID, and None by the instance that was cached under "o" before
C22_Witness ==
    \E id \in DOMAIN heap :
        /\ heap[id].base = "Hub"
        /\ HubField(id, "Cfg").id.live = liveC
        /\ heap[HubField(id, "Cfg").id].base = "Conf"
        /\ HubField(id, "Tid").id.live = liveX
        /\ heap[HubField(id, "Tid").id].base = "Leaf"
        /\ HubField(id, "Cl") # Nil
        /\ HubField(id, "Cl").id.live \notin {liveC, strEmpty}
        /\ heap[HubField(id, "Cl").id].base = "Conf"
        /\ HubField(id, "None").id.live = liveOther
        /\ liveOther \in DOMAIN instances
        /\ HubField(id, "None").id = instances[liveOther].id

\* the descriptor of the interface field t is at cannot be resolved: the tag
\* is `random`, or it gives neither a live ID nor a type ID
Malformed(p) == p.isRandomLiveID \/ (p.liveID = strEmpty /\ p.typeID = strEmpty)

\* the step of t panics and nothing is resolved, built or cached
PanicsUntouched(t) ==
    /\ status'[t] = "panic"
    /\ stack'[t] = stack[t]
    /\ UNCHANGED <<instances, brickConfigs, declaredLiveIDs, flight, heap, builds,
                   nextRandom>>

\* the step of t resolves the field to the default instance of type ID tid:
\* the instance cached under tid, or a call for the type of tid under tid
ResolvesDefault(t, tid) ==
    \/ status'[t] = "overflow"
    \/ /\ tid \in DOMAIN instances
       /\ status'[t] = "run"
       /\ heap'[Top(t).inst].flds[FieldAt(t).name].id = instances[tid].id
    \/ /\ tid \notin DOMAIN instances
       /\ tid \in DOMAIN brickManager.brickTypeIDMap2
       /\ status'[t] = "run"
       /\ CallsFor(t, brickManager.brickTypeIDMap2[tid], <<tid>>)

\* C23: the injection of an interface-typed field panics, and resolves, builds
\* and caches nothing, when the tag is `random` or gives neither a live ID nor
\* a type ID; a tag with an empty live ID and the type ID t of a registered
\* type resolves the default instance of t, under live ID t.
C23_MalformedTagPanics ==
    [][\A t \in Threads :
          (AtInterfaceField(t) /\ Moves(t)) =>
              LET p == DescriptorAt(t)
              IN  /\ Malformed(p) => PanicsUntouched(t)
                  /\ (/\ ~p.isRandomLiveID
                      /\ ~p.isClone
                      /\ p.liveID = strEmpty
                      /\ p.typeID \in DOMAIN brickManager.brickTypeIDMap2
                      /\ p.typeID \notin DOMAIN brickConfigs)
                         => ResolvesDefault(t, p.typeID)]_vars

\* C23 happens: field F of a Dflt, tagged `,L`, refers to the Leaf built under
\* live ID "L", and the call panicked at field G, tagged `random`
C23_Witness ==
    /\ status[1] = "panic"
    /\ err[1] = "ifaceRandom"
    /\ \E id \in DOMAIN heap :
          /\ heap[id].base = "Dflt"
          /\ heap[id].flds["F"].id.live = tidLeaf
          /\ heap[heap[id].flds["F"].id].base = "Leaf"
          /\ heap[id].flds["G"] = Nil
          /\ tidLeaf \in DOMAIN instances
          /\ instances[tidLeaf].id = heap[id].flds["F"].id

\* goroutine t is about to make a call fn of its program, and makes it
CallsNow(t, fns) ==
    /\ status[t] = "idle"
    /\ prog[t] # <<>>
    /\ Head(prog[t]).fn \in fns
    /\ (prog'[t] # prog[t] \/ status'[t] # status[t])

\* an entry of the configuration store that the validation pass rejects: a
\* payload, no skip-validation flag, and no factory for its type ID
RejectedEntry(l) ==
    /\ brickConfigs[l].Config # "nil"
    /\ ~brickConfigs[l].noCheck
    /\ brickConfigs[l].TypeID \notin brickManager.brickFactories

\* the call that t makes ends at the validation pass, before any resolution
PanicsAtValidation(t) ==
    /\ status'[t] = "idle"
    /\ stack'[t] = <<>>
    /\ results'[t] = Append(results[t], [req |-> Head(prog[t]), ok |-> FALSE, val |-> Nil,
                                          err |-> "checkConfig"])
    /\ UNCHANGED <<instances, heap, builds>>

\* a Get or GetOrCreate validates the store exactly when no call did since the
\* last successful ingestion, and then panics exactly when an entry is rejected
ValidatesFirst(t) ==
    IF brickManager.brickConfigCheckOnce
    THEN /\ status'[t] = "run"
         /\ brickManager'.checks = brickManager.checks
    ELSE /\ brickManager'.checks = brickManager.checks + 1
         /\ brickManager'.brickConfigCheckOnce
         /\ PanicsAtValidation(t) <=> \E l \in DOMAIN brickConfigs : RejectedEntry(l)
         /\ ~PanicsAtValidation(t) => status'[t] = "run"

\* an ingestion that succeeded makes the next Get or GetOrCreate validate
IngestionResets(t) ==
    (/\ Len(results'[t]) = Len(results[t]) + 1
     /\ results'[t][Len(results'[t])].ok) => ~brickManager'.brickConfigCheckOnce

\* C24: the first Get or GetOrCreate after each successful ingestion of
\* configuration runs a validation pass over the whole configuration store
\* before it resolves anything; the call panics if and only if some entry has
\* a payload, no skip-validation flag and no factory for its type ID; the pass
\* runs at most once per ingestion (and once before the first one).
C24_ValidatesOncePerIngestion ==
    /\ [][\A t \in Threads :
             /\ CallsNow(t, {"Get", "GetOrCreate"}) => ValidatesFirst(t)
             /\ CallsNow(t, {"AddConfigFile"}) => IngestionResets(t)]_vars
    /\ [](brickManager.checks <= brickManager.ingests + 1)

\* C24 happens: a file with a payload for an unregistered type was ingested,
\* the Get after it panicked in the validation pass, and the Get after that
\* one resolved without a second pass
C24_Witness ==
    /\ Len(results[1]) = 3
    /\ results[1][1].req = CfgReq("AddConfigFile", docGhost)
    /\ results[1][1].ok
    /\ results[1][2].req.fn = "Get"
    /\ results[1][2].err = "checkConfig"
    /\ results[1][3].req.fn = "Get"
    /\ results[1][3].ok
    /\ brickManager.checks = 1
    /\ brickManager.ingests = 1

\* the places (document, live) of a batch, and the live ID at a place
Places(configs) ==
    UNION {{<<i, j>> : j \in DOMAIN configs[i].Lives} : i \in DOMAIN configs}

LiveAt(configs, pl) == configs[pl[1]].Lives[pl[2]].LiveID

\* a live ID occurs twice in the batch
OccursTwice(configs) ==
    \E p1, p2 \in Places(configs) :
        /\ p1 # p2
        /\ LiveAt(configs, p1) = LiveAt(configs, p2)

\* a live ID of the batch is in the configuration store
AlreadyStored(configs) ==
    \E pl \in Places(configs) : LiveAt(configs, pl) \in DOMAIN brickConfigs

\* the call t makes returns an error and neither the configuration store nor
\* the set of declared live IDs changes
RejectedWhole(t) ==
    /\ Len(results'[t]) = Len(results[t]) + 1
    /\ ~results'[t][Len(results'[t])].ok
    /\ brickConfigs' = brickConfigs
    /\ declaredLiveIDs' = declaredLiveIDs

\* C25: the ingestion of a batch in which a live ID occurs twice, or which
\* holds a live ID that is in the configuration store already, returns an
\* error, and no entry of the batch is added to the configuration store or to
\* the declared live IDs.
C25_DuplicateRejectedWhole ==
    [][\A t \in Threads :
          (/\ CallsNow(t, {"AddConfigFile"})
           /\ OccursTwice(Head(prog[t]).arg) \/ AlreadyStored(Head(prog[t]).arg))
              => RejectedWhole(t)]_vars

\* C25 happens: after a file with the live IDs "L" and "x", a file with "M"
\* and "x" was rejected, "M" is not stored and nothing more is declared
C25_Witness ==
    /\ Len(results[1]) = 2
    /\ results[1][1].req = CfgReq("AddConfigFile", docLeafNil)
    /\ results[1][1].ok
    /\ results[1][2].req = CfgReq("AddConfigFile", docMixed)
    /\ ~results[1][2].ok
    /\ DOMAIN brickConfigs = {tidLeaf, liveX}
    /\ declaredLiveIDs = Registered.declaredLiveIDs \cup {liveX}

\* a group of the batch lists live entries, none of them under its type ID
LooseGroup(configs, i) ==
    /\ configs[i].Lives # <<>>
    /\ \A j \in DOMAIN configs[i].Lives : configs[i].Lives[j].LiveID # configs[i].MetaData.TypeID

\* nothing but the live-ID constraint stands against the batch: type IDs and
\* live IDs are given, no live ID is repeated or stored, no payload needs a
\* factory that is missing, and brickConfigLock can be taken
NoOtherDefect(configs) ==
    /\ \A i \in DOMAIN configs : configs[i].MetaData.TypeID # strEmpty
    /\ \A pl \in Places(configs) : LiveAt(configs, pl) # strEmpty
    /\ ~OccursTwice(configs)
    /\ ~AlreadyStored(configs)
    /\ \A pl \in Places(configs) :
          \/ configs[pl[1]].Lives[pl[2]].Config = "nil"
          \/ configs[pl[1]].MetaData.NoCheck
          \/ configs[pl[1]].MetaData.TypeID \notin DOMAIN brickManager.brickTypeIDMap2
          \/ configs[pl[1]].MetaData.TypeID \in brickManager.brickFactories
    /\ brickManager.brickConfigRLocks = 0

\* the call t makes returns without error, and every live ID of the batch is
\* stored under the type ID of its group and, unless it is that type ID, declared
AcceptedWhole(t, configs) ==
    /\ Len(results'[t]) = Len(results[t]) + 1
    /\ results'[t][Len(results'[t])].ok
    /\ \A pl \in Places(configs) :
          /\ LiveAt(configs, pl) \in DOMAIN brickConfigs'
          /\ brickConfigs'[LiveAt(configs, pl)].TypeID = configs[pl[1]].MetaData.TypeID
          /\ LiveAt(configs, pl) # configs[pl[1]].MetaData.TypeID
                 => LiveAt(configs, pl) \in declaredLiveIDs'

\* C26: the live-ID constraint is enabled at the start; while it is enabled,
\* the ingestion rejects every batch with a group that lists live entries but
\* none whose live ID is the type ID of the group; after
\* SetLiveIDConstraint(false) such a batch, when nothing else stands against
\* it, is accepted, and its live IDs are stored and declared.
C26_LiveIDConstraint ==
    /\ brickManager.liveIDConstraint
    /\ [][\A t \in Threads :
             /\ CallsNow(t, {"SetLiveIDConstraint"})
                    => brickManager'.liveIDConstraint = Head(prog[t]).arg
             /\ (/\ CallsNow(t, {"AddConfigFile"})
                 /\ \E i \in DOMAIN Head(prog[t]).arg : LooseGroup(Head(prog[t]).arg, i))
                    => IF brickManager.liveIDConstraint
                       THEN RejectedWhole(t)
                       ELSE NoOtherDefect(Head(prog[t]).arg)
                               => AcceptedWhole(t, Head(prog[t]).arg)]_vars

\* C26 happens: a file whose only live of type "L" is "o" was rejected, the
\* constraint was switched off, and the same content was accepted: "o" is
\* stored and declared
C26_Witness ==
    /\ Len(results[1]) = 3
    /\ results[1][1].req = CfgReq("AddConfigFile", docLoose)
    /\ ~results[1][1].ok
    /\ results[1][2].req = CfgReq("SetLiveIDConstraint", FALSE)
    /\ results[1][3].req = CfgReq("AddConfigFile", docLoose)
    /\ results[1][3].ok
    /\ liveOther \in DOMAIN brickConfigs
    /\ brickConfigs[liveOther].TypeID = tidLeaf
    /\ liveOther \in declaredLiveIDs

\* every struct with a BrickBase carries the live ID it was built under
BaseCarriesLive ==
    \A id \in DOMAIN heap :
        heap[id].base \in EmbedsBrickBase =>
            /\ heap[id].liveID = id.live
            /\ id.live \in DOMAIN instances => instances[id.live].id.live = heap[id].liveID

\* the fields R (tag random) and C (tag clone) of every Kit, once set, refer
\* to a Based whose BrickBase carries a generated live ID
GeneratedCarried ==
    \A id \in DOMAIN heap :
        heap[id].base = "Kit" =>
            \A f \in {"R", "C"} :
                heap[id].flds[f] # Nil =>
                    /\ heap[heap[id].flds[f].id].liveID = heap[id].flds[f].id.live
                    /\ \E n \in 1 .. nextRandom : heap[heap[id].flds[f].id].liveID = RandomLiveID(n)

\* the last call that t made, and the one t is at
LastResult(t) == results[t][Len(results[t])]

\* the live ID that a Get or GetOrCreate asks for
AskedLive(r) ==
    IF r.arg = <<>> \/ r.arg = <<strEmpty>> THEN BrickTypes[r.typ.base].tid ELSE r.arg[1]

\* the call of BrickLiveID that t makes returns the live ID its receiver was
\* resolved under, and panics on a receiver that was never injected
ReturnsResolvedLive(t) ==
    /\ Len(results'[t]) = Len(results[t]) + 1
    /\ IF Head(prog[t]).arg = onNew
       THEN ~results'[t][Len(results'[t])].ok
       ELSE /\ results'[t][Len(results'[t])].ok
            /\ results'[t][Len(results'[t])].val.id.live = AskedLive(LastResult(t).req)

\* C27: an instance of a type that embeds BrickBase, resolved under live ID L,
\* returns L from BrickLiveID(): the type ID for the default instance, the
\* generated live ID for a clone or a random instance; BrickLiveID() panics on
\* an instance that was never injected.
C27_BrickLiveIDIsResolvedLive ==
    /\ [](BaseCarriesLive /\ GeneratedCarried)
    /\ [][\A t \in Threads :
             (CallsNow(t, {"BrickLiveID"}) /\ hasReceiver(t)) => ReturnsResolvedLive(t)]_vars

\* C27 happens: GetOrCreate[*Based]("o") was followed by BrickLiveID() on the
\* instance it returned, which gave "o"
C27_Witness ==
    /\ Len(results[1]) = 2
    /\ results[1][1].req = Req("GetOrCreate", "Based", 1, <<liveOther>>)
    /\ results[1][1].ok
    /\ results[1][2].req = BaseReq("BrickLiveID", onReturned)
    /\ results[1][2].ok
    /\ results[1][2].val.id.live = liveOther

\* the live ID is listed under the type ID in a file that was read
KnownInFile(typeID, brickLiveID) ==
    \E i \in DOMAIN brickManager.configs :
        \E d \in DOMAIN brickManager.configs[i].content :
            /\ brickManager.configs[i].content[d].MetaData.TypeID = typeID
            /\ \E j \in DOMAIN brickManager.configs[i].content[d].Lives :
                  brickManager.configs[i].content[d].Lives[j].LiveID = brickLiveID

\* C28: saving a configuration for a type ID and a live ID returns an error
\* whenever the live ID is not listed under the type ID in any file that was
\* read, also when no file was read at all; then no file and no entry of the
\* configuration store is changed.
C28_SaveUnknownIsError ==
    [][\A t \in Threads :
          (/\ CallsNow(t, {"SaveBrickConfig"})
           /\ hasReceiver(t)
           /\ ~KnownInFile(tidBased, receiverLiveID(t)))
              => /\ Len(results'[t]) = Len(results[t]) + 1
                 /\ ~results'[t][Len(results'[t])].ok
                 /\ brickManager'.configs = brickManager.configs
                 /\ brickConfigs' = brickConfigs]_vars

\* the instance cached under the live ID of the call r is of the type of r,
\* in whatever shape
CachedForType(r) ==
    /\ LiveOf(r) \in DOMAIN instances
    /\ instances[LiveOf(r)].typ.base = r.typ.base

\* C29: every caller of a resolution receives the instance in the shape it
\* requested (the value or the pointer depth of its type parameter), also a
\* caller that waited for the build another caller had started for the same
\* live ID in a different shape; no such call fails at the conversion to T.
C29_CallerShape ==
    \A t \in Threads : \A i \in DOMAIN results[t] :
        LET r == results[t][i]
        IN  IsResolution(r.req)
                => /\ r.ok => r.val.typ = r.req.typ
                   /\ ~(r.err = "typeAssert" /\ CachedForType(r.req))

\* the live IDs that this step writes to the instance cache
WrittenNow == {l \in DOMAIN instances' : l \notin DOMAIN instances \/ instances'[l] # instances[l]}

\* the call that builds the live ID l: the frame of the goroutine that runs it
BuildingCall(l) == Top(flight[l])

MaxLevel == 3

\* a type with pointer receivers and a type with value receivers
ConvBases == {"Leaf", "Plain"}

\* the stored instances: the struct of a base type behind r pointer layers
ConvInstances ==
    {Val(Id(BrickTypes[b].tid, 1), Typ(b, r)) : b \in ConvBases, r \in 0 .. MaxLevel}

\* the target types: the interface type and every depth of the base types
ConvTargets == {IfaceTyp} \cup {Typ(b, k) : b \in ConvBases, k \in 0 .. MaxLevel}

ConvCalls ==
    {[fn |-> "convertInstance", instance |-> v, targetType |-> tt] :
        v \in ConvInstances, tt \in ConvTargets}

\* the names a tag is written with: live IDs, a type ID, and the two words
\* that parseTag knows
TagNames == {liveX, liveC, tidLeaf, strClone, strRandom}

\* the tags: a name or nothing, the same after "clone:", and each of them
\* followed by a type ID, by an empty type ID, and by two type IDs
Tags ==
    LET first == {strEmpty} \cup TagNames \cup {strClonePrefix \o n : n \in {strEmpty} \cup TagNames}
    IN  first
        \cup {f \o <<",">> \o ty : f \in first, ty \in {strEmpty, tidLeaf}}
        \cup {f \o <<",">> \o tidLeaf \o <<",">> \o tidMid : f \in first}

TagCalls == {[fn |-> "parseTag", tag |-> tag] : tag \in Tags}

\* one call of a pure function
PureInit ==
    /\ brickManager = NewManager
    /\ instances = EmptyFn
    /\ brickConfigs = EmptyFn
    /\ declaredLiveIDs = {}
    /\ flight = EmptyFn
    /\ heap = EmptyFn
    /\ builds = EmptyFn
    /\ nextRandom = 0
    /\ stack = [t \in Threads |-> <<>>]
    /\ bld = [t \in Threads |-> <<>>]
    /\ prog \in {[t \in Threads |-> IF t = 1 THEN <<c>> ELSE <<>>] : c \in ConvCalls \cup TagCalls}
    /\ results = [t \in Threads |-> <<>>]
    /\ status = [t \in Threads |-> "idle"]
    /\ err = [t \in Threads |-> NoErr]

\* the call returns: the result and, for convertInstance, the reflect
\* operations that made it
PureReturn(t, v, ops) ==
    /\ results' = [results EXCEPT ![t] = Append(@, [req |-> Head(prog[t]), ok |-> TRUE,
                                                     val |-> v, err |-> NoErr, ops |-> ops])]
    /\ prog' = [prog EXCEPT ![t] = Tail(@)]
    /\ UNCHANGED <<brickManager, instances, brickConfigs, declaredLiveIDs, flight, heap, builds,
                   nextRandom, stack, bld, status, err>>

\* create.go convertInstance
ConvertInstance(t) ==
    /\ prog[t] # <<>>
    /\ Head(prog[t]).fn = "convertInstance"
    /\ PureReturn(t, convertInstance(Head(prog[t]).instance, Head(prog[t]).targetType),
                  convertOps(Head(prog[t]).instance, Head(prog[t]).targetType))

\* brick.go BrickManager.parseTag
ParseTag(t) ==
    /\ prog[t] # <<>>
    /\ Head(prog[t]).fn = "parseTag"
    /\ PureReturn(t, parseTag(Head(prog[t]).tag), <<>>)

PureNext ==
    \E t \in Threads :
        \/ ConvertInstance(t)
        \/ ParseTag(t)

PureSpec == PureInit /\ [][PureNext]_vars

\* every finished call of the pure function fn satisfies P
EveryResult(fn, P(_)) ==
    \A t \in Threads : \A i \in DOMAIN results[t] :
        results[t][i].req.fn = fn => P(results[t][i])

\* some finished call of the pure function fn satisfies P
SomeResult(fn, P(_)) ==
    \E t \in Threads : \E i \in DOMAIN results[t] :
        results[t][i].req.fn = fn /\ P(results[t][i])

\* what convertInstance did in the finished call c: the depth and the struct of
\* the result, and the reflect operations that made it
ConvertsToDepth(c) ==
    LET v == c.req.instance
        tt == c.req.targetType
        r == v.typ.lvl
    IN  /\ c.val.id = v.id
        /\ c.val.typ.base = v.typ.base
        /\ (tt # IfaceTyp /\ tt.base = v.typ.base)
              => /\ c.val.typ.lvl = tt.lvl
                 /\ c.ops = IF r > tt.lvl THEN Times(opElem, r - tt.lvl)
                            ELSE Times(opWrap, tt.lvl - r)
        /\ tt = IfaceTyp
              => IF r >= 1 THEN c.val.typ.lvl = 1 /\ c.ops = Times(opElem, r - 1)
                 ELSE IF valueImplements(v.typ.base) THEN c.val = v /\ c.ops = <<>>
                 ELSE c.val.typ.lvl = 1 /\ c.ops = <<opWrap>>

\* C31: convertInstance returns, for a stored instance of pointer depth r and
\* a target of the same base type and depth k, a value of depth k that reaches
\* the stored struct: it removes r-k layers with Elem when r > k and adds k-r
\* layers with wrapPointerLayer when r < k. For the interface type it returns
\* depth 1 when r >= 1, the value itself when r = 0 and the value implements
\* the interface, and one new pointer to it otherwise.
C31_ConvertsToDepth == EveryResult("convertInstance", ConvertsToDepth)

\* a **Plain was converted to Plain: two layers removed
PeeledTwice(c) ==
    /\ c.req.instance.typ = Typ("Plain", 2)
    /\ c.req.targetType = Typ("Plain", 0)
    /\ c.val.typ = Typ("Plain", 0)

C31_Witness == SomeResult("convertInstance", PeeledTwice)

\* the result of parseTag: live ID, type ID, clone flag, random flag
Parsed(liveID, typeID, isClone, isRandomLiveID) ==
    [liveID |-> liveID, typeID |-> typeID, isClone |-> isClone,
     isRandomLiveID |-> isRandomLiveID]

\* the names that are a live ID when they stand alone: not the words random
\* and clone
PlainNames == {strEmpty} \cup (TagNames \ {strClone, strRandom})

\* what parseTag returned in the finished call c, for each form of the tag
ParseTagForms(c) ==
    LET tag == c.req.tag
        p == c.val
    IN  /\ tag = strRandom => p = Parsed(strEmpty, strEmpty, FALSE, TRUE)
        /\ tag = strClone => p = Parsed(strEmpty, strEmpty, TRUE, FALSE)
        /\ \A X \in TagNames :
              tag = strClonePrefix \o X => p = Parsed(X, strEmpty, TRUE, FALSE)
        /\ \A L \in PlainNames : tag = L => p = Parsed(L, strEmpty, FALSE, FALSE)
        /\ \A L \in {strEmpty} \cup TagNames : \A T \in {strEmpty, tidLeaf} :
              tag = L \o <<",">> \o T => p = Parsed(L, T, FALSE, FALSE)
        /\ ~(p.isClone /\ p.isRandomLiveID)
        /\ p.isRandomLiveID => p.liveID = strEmpty

\* C32: parseTag maps "random" to the random flag with both IDs empty, "clone"
\* to the clone flag with an empty live ID, "clone:X" to the clone flag with
\* live ID X, and "L" and "L,T" to live ID L and type ID T (empty when absent)
\* with neither flag; it never sets both flags, and with the random flag the
\* live ID is empty.
C32_ParseTagForms == EveryResult("parseTag", ParseTagForms)

(* ------------------------------------------------------------------ *)
(* C33: what a build that panics leaves behind                          *)
(* ------------------------------------------------------------------ *)

\* the brick-tagged fields of the struct id that are not set
UnsetFields(id) == {f \in DOMAIN heap[id].flds : heap[id].flds[f] = Nil}

\* the brick-tagged fields of a type that are exported
ExportedFields(base) ==
    {BrickTypes[base].fields[i].name :
        i \in {j \in DOMAIN BrickTypes[base].fields : BrickTypes[base].fields[j].exported}}

\* goroutine t leaves, in a panic, the call that ran the build of a live ID
BuildPanics(t) ==
    /\ status[t] = "panic"
    /\ stack[t] # <<>>
    /\ Top(t).exec
    /\ Len(stack'[t]) < Len(stack[t])

\* the build that panicked wrote no entry, and its live ID is neither in
\* flight nor is its type marked as under construction any more
LeavesNothing(t) ==
    /\ instances' = instances
    /\ Top(t).live \notin DOMAIN flight'
    /\ Top(t).ownctx \/ Top(t).typ \notin bld'[t][Top(t).ctx]

\* a goroutine between two calls runs no call in flight and has no
\* buildingBrick map
NothingStale ==
    \A t \in Threads :
        stack[t] = <<>> => /\ bld[t] = <<>>
                           /\ \A l \in DOMAIN flight : flight[l] # t

\* C33 (the part about panics): when a step of building a live ID panics, no
\* entry is written for it, it is no longer in flight and its type is no
\* longer marked as under construction, so that a later resolution builds anew;
\* every instance in the cache has all its exported brick-tagged fields set.
C33_PanicLeavesNothing ==
    /\ [][\A t \in Threads : BuildPanics(t) => LeavesNothing(t)]_vars
    /\ [](NothingStale)
    /\ [](\A l \in DOMAIN instances :
            UnsetFields(instances[l].id) \cap ExportedFields(instances[l].typ.base) = {})

\* C33: the instance cache never holds a partially wired instance: every
\* brick-tagged field of a cached instance is set; and when a step of building
\* a live ID panics, no entry is written for it, it is no longer in flight or
\* marked as under construction, and a later resolution builds anew.
C33_NeverPartlyWired ==
    /\ [](\A l \in DOMAIN instances : UnsetFields(instances[l].id) = {})
    /\ [][\A t \in Threads : BuildPanics(t) => LeavesNothing(t)]_vars
    /\ [](NothingStale)

\* Get[*Clash]() panicked twice while its field was injected, and each call
\* started a build of its own
C33_Rebuilt ==
    /\ Len(results[1]) = 2
    /\ results[1][1].req = Req("Get", "Clash", 1, <<>>)
    /\ results[1][2].req = Req("Get", "Clash", 1, <<>>)
    /\ ~results[1][1].ok
    /\ ~results[1][2].ok
    /\ tidClash \in DOMAIN builds
    /\ builds[tidClash] = 2
    /\ tidClash \notin DOMAIN instances

\* C34: every function that takes the lock of the configuration store
\* releases it on every way out, error returns and panics included: between
\* two calls no read lock is held, and no later call (another addConfig, a
\* CloneConfig, a resolution) blocks on the lock forever.
C34_LockAlwaysReleased ==
    /\ \A t \in Threads : status[t] # "blocked"
    /\ (\A t \in Threads : status[t] = "idle" /\ stack[t] = <<>>)
           => brickManager.brickConfigRLocks = 0

\* the call t makes returns an error
ReturnsError(t) ==
    /\ Len(results'[t]) = Len(results[t]) + 1
    /\ ~results'[t][Len(results'[t])].ok

\* C35: addConfig is all-or-nothing for every error it returns (missing type
\* ID, missing live ID, duplicate live ID, live-ID constraint, payload for a
\* registered type without a factory): when it returns an error, the
\* configuration store and the declared live IDs are as before the call.
C35_AllOrNothing ==
    [][\A t \in Threads :
          (CallsNow(t, {"AddConfigFile"}) /\ ReturnsError(t))
              => /\ brickConfigs' = brickConfigs
                 /\ declaredLiveIDs' = declaredLiveIDs]_vars

(* ------------------------------------------------------------------ *)
(* Concurrent callers under a fair scheduler                            *)
(* ------------------------------------------------------------------ *)

\* calls on types whose dependency graph has no cycle; two of them ask, with
\* GetOrCreate, for a live ID that a field of the other's type names
LiveRequests ==
    {Req("Get", "Leaf", 1, <<>>),
     Req("Get", "Mid", 1, <<>>),
     Req("Get", "Root", 1, <<>>),
     Req("Get", "Pool", 1, <<>>),
     Req("Get", "Clash", 1, <<>>),
     Req("GetOrCreate", "Leaf", 1, <<liveX>>),
     Req("GetOrCreate", "Root", 1, <<liveY>>),
     Req("GetOrCreate", "Mid", 1, <<liveY>>),
     Req("GetOrCreate", "Svc", 1, <<liveX>>)}

\* two goroutines make one of these calls each, or one of them clones a
\* configuration first
LivePrograms ==
    {[t \in Threads |-> IF t = 1 THEN <<r1>> ELSE IF t = 2 THEN <<r2>> ELSE <<>>] :
        r1 \in LiveRequests, r2 \in LiveRequests}
    \cup {[t \in Threads |-> IF t = 1 THEN <<Req("CloneConfig", "Conf", 1, <<>>),
                                              Req("Get", "Conf", 1, <<argReturned>>)>>
                             ELSE IF t = 2 THEN <<r>> ELSE <<>>] : r \in LiveRequests}

LiveInit ==
    /\ brickManager = ManagerState(Manager, <<FileOf(ConfigFiles)>>)
    /\ instances = EmptyFn
    /\ brickConfigs = Manager.brickConfigs
    /\ declaredLiveIDs = Manager.declaredLiveIDs
    /\ flight = EmptyFn
    /\ heap = EmptyFn
    /\ builds = EmptyFn
    /\ nextRandom = 0
    /\ stack = [t \in Threads |-> <<>>]
    /\ bld = [t \in Threads |-> <<>>]
    /\ prog \in LivePrograms
    /\ results = [t \in Threads |-> <<>>]
    /\ status = [t \in Threads |-> "idle"]
    /\ err = [t \in Threads |-> NoErr]

\* a step of goroutine t
GoroutineStep(t) ==
    \/ StartCall(t)
    \/ CloneConfig(t)
    \/ Enter(t)
    \/ DoCall(t)
    \/ Build(t)
    \/ Inject(t)
    \/ Woken(t)
    \/ Unwind(t)

\* the Go scheduler runs every goroutine that can take a step
LiveSpec == LiveInit /\ [][Next]_vars /\ \A t \in Threads : WF_vars(GoroutineStep(t))

\* every resolution of the program is for a type whose dependency graph has
\* no cycle
AcyclicCalls ==
    \A t \in Threads : \A i \in DOMAIN Calls(t) :
        IsResolution(Calls(t)[i]) => Calls(t)[i].typ.base \in AcyclicBases

\* every call of the program has returned, with a value or a panic
AllReturned ==
    \A t \in Threads : prog[t] = <<>> /\ stack[t] = <<>> /\ status[t] = "idle"

\* C36: if the type dependency graph is acyclic (and every factory returns),
\* every Get and GetOrCreate call eventually returns, under any interleaving
\* of the concurrent callers: the waits for builds in flight form no deadlock.
C36_AcyclicCallsReturn == AcyclicCalls ~> AllReturned

\* two goroutines wait for each other's call in flight
C36_MutualWait == WaitsFor(1, 2) /\ WaitsFor(2, 1)

\* a call of getBrickInstance by goroutine t returns, without a panic, to the
\* caller of Get or GetOrCreate or to the injection of a field
ReturnsNow(t) ==
    /\ status[t] = "run"
    /\ stack[t] # <<>>
    /\ Len(stack'[t]) = Len(stack[t]) - 1
    /\ status'[t] \in {"run", "idle"}

\* the value that this call yields: the result of the top-level call, or the
\* field of the struct under construction that the call was made for
Yielded(t) ==
    IF Len(stack[t]) = 1
    THEN results'[t][Len(results'[t])].val
    ELSE LET c == stack[t][Len(stack[t]) - 1]
         IN  heap'[c.inst].flds[BrickTypes[heap[c.inst].base].fields[c.fi].name]

\* C37: a resolution for a requested type T under a live ID either panics or
\* yields an instance whose base type is T, also when an instance of another
\* type is cached, or being built, under the live ID.
C37_YieldsRequestedType ==
    [][\A t \in Threads :
          ReturnsNow(t) => \/ Yielded(t) = Nil
                           \/ heap'[Yielded(t).id].base = Top(t).typ.base]_vars

\* the payloads as the configuration documents carry them
DocumentPayloads ==
    {ConfigFiles[i].Lives[j].Config :
        i \in DOMAIN ConfigFiles, j \in 1 .. Len(ConfigFiles[1].Lives)}

\* C38: invoking a factory never modifies the payload stored in the Config
\* Store: after any number of builds, also concurrent builds of a source live
\* ID and of its clone that share the payload, every entry holds the payload
\* as its document gave it, placeholder tokens included.
C38_StoredPayloadKept ==
    \A l \in DOMAIN brickConfigs : brickConfigs[l].Config \in DocumentPayloads

\* a clone of live ID "c" shares the payload that a build has rewritten
C38_CloneSeesWrite ==
    \E l \in DOMAIN brickConfigs \ {liveC} :
        /\ brickConfigs[l].TypeID = tidConf
        /\ brickConfigs[l].Config = handleConfigHelper(cfgEnvMap).stored
        /\ l \notin DOMAIN builds

\* the live IDs of the live overrides of a type, and their target live IDs
LiveIDsOf(base) ==
    LET lives == BrickTypes[base].lives
    IN  {lives[i].LiveID : i \in DOMAIN lives}
        \cup UNION {{lives[i].RelyLives[f] : f \in DOMAIN lives[i].RelyLives} :
                      i \in DOMAIN lives}

\* goroutine t makes a registration call that returns without a panic
RegistrationReturns(t) ==
    /\ prog[t] # <<>>
    /\ Head(prog[t]).fn \in {"Register", "RegisterNewer", "RegisterLives"}
    /\ Len(results'[t]) = Len(results[t]) + 1
    /\ results'[t][Len(results'[t])].ok

\* the types that the call binds: the type of the call itself when the call is
\* RegisterLives, and the types of the fields it walks
BoundWithLives(t) ==
    {typ \in DOMAIN brickManager'.brickTypeIDMap1 \ DOMAIN brickManager.brickTypeIDMap1 :
        typ.base # Head(prog[t]).base \/ Head(prog[t]).fn = "RegisterLives"}

\* C39: once a registration returns, the live ID and the target live IDs of
\* every live override of a type it registered, directly through RegisterLives
\* or transitively as the type of a dependency field, are declared.
C39_LivesDeclared ==
    [][\A t \in Threads :
          RegistrationReturns(t) =>
              \A typ \in BoundWithLives(t) : LiveIDsOf(typ.base) \subseteq declaredLiveIDs']_vars

\* the same for the type of the RegisterLives call alone
C39_DirectLivesDeclared ==
    [][\A t \in Threads :
          RegistrationReturns(t) =>
              \A typ \in BoundWithLives(t) :
                  typ.base = Head(prog[t]).base =>
                      LiveIDsOf(typ.base) \subseteq declaredLiveIDs']_vars

\* the interface-typed fields of a type whose tag names a live ID and a type ID
BothNamed(base) ==
    {i \in DOMAIN BrickTypes[base].fields :
        LET f == BrickTypes[base].fields[i]
        IN  /\ f.kind = "iface"
            /\ parseTag(f.tag).liveID # strEmpty
            /\ parseTag(f.tag).typeID # strEmpty}

\* C40: when the tag of an interface-typed field names a live ID and a type
\* ID, injection either panics or sets the field to an instance of the type
\* registered under the type ID, whichever strategy supplied the instance.
C40_FieldOfTaggedType ==
    \A id \in DOMAIN heap : \A i \in BothNamed(heap[id].base) :
        LET f == BrickTypes[heap[id].base].fields[i]
            v == heap[id].flds[f.name]
        IN  v # Nil =>
                /\ parseTag(f.tag).typeID \in DOMAIN Manager.brickTypeIDMap2
                /\ heap[v.id].base = Manager.brickTypeIDMap2[parseTag(f.tag).typeID].base

\* the supporting case: the field was set, and to an instance of the tagged type
C40_TaggedTypeSet ==
    \E id \in DOMAIN heap : \E i \in BothNamed(heap[id].base) :
        LET f == BrickTypes[heap[id].base].fields[i]
            v == heap[id].flds[f.name]
        IN  /\ v # Nil
            /\ heap[v.id].base = Manager.brickTypeIDMap2[parseTag(f.tag).typeID].base

====
